---- MODULE Spec2Model ----
(***************************************************************************)
(* Model of the newsletter repository: the news discovery pipeline         *)
(* (user_modules/news_finder.py, the dashboard loop of                      *)
(* streamlit_user_app.py) and the per-tenant access and permission         *)
(* resolution (user_modules/customer_selector.py,                          *)
(* admin_modules/customer_manager.py).                                     *)
(*                                                                         *)
(* Time is counted in whole hours.  An article's published_datetime is     *)
(* the isoformat() string of a naive datetime; for such strings the        *)
(* lexicographic order the code sorts by coincides with the chronological  *)
(* order, so the sort key is modelled by the hour count itself.            *)
(***************************************************************************)
EXTENDS Integers, Sequences, FiniteSets, TLC

(***************************************************************************)
(* Bounds of the model                                                     *)
(***************************************************************************)
MaxEntries == 3        \* entries in one feed response
MaxTotal == 3          \* entries in all feed responses of one run together
Now0 == 2000           \* the hour at which the run happens

(***************************************************************************)
(* Program constants                                                       *)
(***************************************************************************)
DefaultMaxResults == 50     \* find_news_google(max_results=50)
HoursPerDay == 24           \* timedelta.days counts whole 24 hour days

VARIABLES
    \* ---- environment of one discovery run
    keywords,        \* the tenant's keyword list
    feed_urls,       \* the urls of the tenant's enabled feeds
    time_period,     \* the value of the "Time Period" select box
    gresp,           \* keyword -> response of the search-feed provider
    rresp,           \* feed url -> response of that feed
    now,             \* datetime.now(), in hours
    \* ---- results of the discovery operations
    pc,              \* which operation runs next
    google_out,      \* return value of find_news_google(keywords, time_period)
    rss_out,         \* return value of find_news_rss(feed_urls, time_period)
    background_out,  \* return value of find_news_background(...)
    found_articles,  \* st.session_state.found_articles
    is_finding_news, \* st.session_state.is_finding_news
    \* ---- the tenant datastore (the customers/ tree of the repository)
    customer_dirs,   \* the customer folders that exist
    user_access,     \* customer id -> customers/<id>/user_access.json
    branding,        \* customer id -> customers/<id>/config/branding.json
    \* ---- the user app's session
    authenticated,        \* st.session_state.authenticated
    user_email,           \* st.session_state.user_email ("" for None)
    current_customer_id,  \* st.session_state.current_customer_id ("" for None)
    user_newsletters,     \* st.session_state.user_newsletters
    session_valid_until,  \* st.session_state.valid_until
    config_cache,         \* the st.session_state customer_config_<id> entry
    selected_article_ids, \* st.session_state.selected_article_ids
    \* ---- customers/<id>/data/newsletters/: the document saved this week
    newsletter_files,
    \* ---- st.session_state of each of two browser sessions
    session_state,
    \* ---- two processes that each load, change and save a file of a tenant
    writers,
    \* ---- the other files of a tenant
    customer_info,   \* customer id -> customers/<id>/customer_info.json
    keywords_cfg,    \* customer id -> customers/<id>/config/keywords.json
    feeds_cfg,       \* customer id -> customers/<id>/config/feeds.json
    \* ---- the admin app's onboarding wizard
    onboarding_data, \* st.session_state.onboarding_data
    onboarding_step, \* st.session_state.onboarding_step
    \* ---- a find_news_google call that runs step by step
    google_call,     \* its position, loop index, articles and delays
    \* ---- what the last operation was called with and what it produced
    ret

\* the selection of the dashboard and what generation has saved
configVars == <<customer_info, keywords_cfg, feeds_cfg, onboarding_data>>

\* operations that are followed step by step
runVars == <<google_call, onboarding_step>>

\* the session keys of the onboarding wizard
wizardVars == <<onboarding_data, onboarding_step>>

dashboardVars == <<selected_article_ids, newsletter_files, session_state,
                   writers, configVars, runVars>>

discoveryVars == <<keywords, feed_urls, time_period, gresp, rresp, now, pc,
                   google_out, rss_out, background_out, found_articles,
                   is_finding_news, dashboardVars>>

storeVars == <<customer_dirs, user_access, branding>>

sessionVars == <<authenticated, user_email, current_customer_id,
                 user_newsletters, session_valid_until, config_cache>>

accessVars == <<storeVars, sessionVars, ret>>

vars == <<discoveryVars, accessVars>>

(***************************************************************************)
(* Small helpers                                                           *)
(***************************************************************************)
Min(a, b) == IF a <= b THEN a ELSE b

Range(s) == {s[i] : i \in 1..Len(s)}

\* Python's s[:n]
Take(s, n) == SubSeq(s, 1, Min(Len(s), n))

(***************************************************************************)
(* The tenant datastore and the session before anything has happened       *)
(***************************************************************************)
\* the customer ids, and the order in which repo.get_contents("customers")
\* lists their folders
CustomerIds == {"acme", "beta", "core"}

ScanOrder == <<"acme", "beta", "core">>

\* a valid_until text: three digit groups a, b, c separated by sep, as in
\* "03/04/2025" or "2025-03-20"; sep "" is the empty string, " " a string
\* of blanks and "x" any other text
DateText(a, sep, b, c) == [a |-> a, sep |-> sep, b |-> b, c |-> c]

EmptyText == DateText(0, "", 0, 0)

\* a file that does not exist
NoUserAccess == [exists |-> FALSE, users |-> <<>>]

NoBranding == [exists |-> FALSE, application_name |-> ""]

NoConfigCache == [exists |-> FALSE, customer_id |-> "", application_name |-> ""]

EmptyStore ==
    /\ customer_dirs = {}
    /\ user_access = [c \in CustomerIds |-> NoUserAccess]
    /\ branding = [c \in CustomerIds |-> NoBranding]

\* the session state initialisation at the top of streamlit_user_app.py
FreshSession ==
    /\ authenticated = FALSE
    /\ user_email = ""
    /\ current_customer_id = ""
    /\ user_newsletters = <<>>
    /\ session_valid_until = EmptyText
    /\ config_cache = NoConfigCache
    /\ ret = [op |-> "none"]

AccessIdle == EmptyStore /\ FreshSession

\* no article is selected and no newsletter document has been saved
NoNewsletter == [exists |-> FALSE, articles |-> <<>>]

\* the browser sessions, and the keys streamlit_user_app.py initialises in
\* the st.session_state of each
SessionIds == {"s1", "s2"}

FreshSessionState ==
    [authenticated |-> FALSE, user_email |-> "", current_customer_id |-> "",
     found_articles |-> <<>>, selected_article_ids |-> {}]

\* files that do not exist
NoCustomerInfo == [exists |-> FALSE, contact_email |-> ""]

NoKeywords == [exists |-> FALSE, keywords |-> <<>>]

NoFeeds == [exists |-> FALSE, feeds |-> <<>>]

\* st.session_state.onboarding_data = {}: data.get('feeds', []) is []
EmptyOnboarding == [feeds |-> <<>>]

\* the processes that write, and a process that is between two operations
WriterIds == {"w1", "w2"}

IdleWriter == [pc |-> "idle"]

\* no find_news_google call is running
IdleCall == [pc |-> "idle"]

\* "if 'onboarding_step' not in st.session_state": the wizard is at step 1
RunIdle == google_call = IdleCall /\ onboarding_step = 1

DashboardIdle ==
    /\ selected_article_ids = {}
    /\ newsletter_files = [c \in CustomerIds |-> NoNewsletter]
    /\ session_state = [s \in SessionIds |-> FreshSessionState]
    /\ writers = [w \in WriterIds |-> IdleWriter]
    /\ customer_info = [c \in CustomerIds |-> NoCustomerInfo]
    /\ keywords_cfg = [c \in CustomerIds |-> NoKeywords]
    /\ feeds_cfg = [c \in CustomerIds |-> NoFeeds]
    /\ onboarding_data = EmptyOnboarding
    /\ RunIdle

(***************************************************************************)
(* Article urls and identifiers                                            *)
(***************************************************************************)
UrlEmpty == ""
UrlA == "https://a.example/1"
UrlB == "https://b.example/2"
UrlC1 == "https://example.com/news/1024564"
UrlC2 == "https://example.com/news/14168088"

\* hashlib.md5(article_url.encode()).hexdigest()[:12], tabulated for the
\* urls of the model (the values are the real digests' first 12 hex digits).
ArticleId(url) ==
    CASE url = UrlEmpty -> "d41d8cd98f00"
      [] url = UrlA -> "d184f307538b"
      [] url = UrlB -> "71a7965f4fdd"
      [] url = UrlC1 -> "9c15ca5c6b25"
      [] url = UrlC2 -> "9c15ca5c6b25"

(***************************************************************************)
(* Recency window                                                          *)
(***************************************************************************)
TimePeriods == {"Last 7 days", "Last 14 days", "Last 30 days"}

\* the substring tests "7" in time_period, "14" in ..., "30" in ...
HasSubstring(tp, digits) ==
    \/ tp = "Last 7 days" /\ digits = "7"
    \/ tp = "Last 14 days" /\ digits = "14"
    \/ tp = "Last 30 days" /\ digits = "30"

WindowDays(tp) ==
    IF HasSubstring(tp, "7") THEN 7
    ELSE IF HasSubstring(tp, "14") THEN 14
    ELSE IF HasSubstring(tp, "30") THEN 30
    ELSE 7

\* (datetime.now() - published_date).days : timedelta normalises to whole
\* days rounded towards minus infinity.
DeltaDays(t_now, t_pub) == (t_now - t_pub) \div HoursPerDay

\* the entry is dropped:  (datetime.now() - published_date).days > days
TooOld(t_now, t_pub, days) == DeltaDays(t_now, t_pub) > days

(***************************************************************************)
(* Feed entries and their published time                                   *)
(*                                                                         *)
(* An entry is [link, kind, t].  kind says which date fields the parsed    *)
(* entry carries and t the instant they denote:                            *)
(*   "parsed"    published_parsed is a valid time struct                    *)
(*   "badstruct" published_parsed is a struct datetime() rejects            *)
(*   "rfc822"    only published, matching "%a, %d %b %Y %H:%M:%S %Z"        *)
(*   "iso"       only published, matching "%Y-%m-%dT%H:%M:%S"               *)
(*   "garbage"   only published, matching neither format                    *)
(*   "none"      no date field at all                                       *)
(***************************************************************************)
DateKinds == {"parsed", "badstruct", "rfc822", "iso", "garbage", "none"}

\* find_news_google, "Extract published date"
PublishedGoogle(e, t_now) ==
    IF e.kind \in {"parsed", "badstruct"}
    THEN [raised |-> e.kind = "badstruct", t |-> e.t]
    ELSE IF e.kind \in {"rfc822", "iso", "garbage"}
         THEN [raised |-> FALSE, t |-> IF e.kind = "rfc822" THEN e.t ELSE t_now]
         ELSE [raised |-> FALSE, t |-> t_now]

\* find_news_rss, "Extract published date"
PublishedRss(e, t_now) ==
    IF e.kind \in {"parsed", "badstruct"}
    THEN [raised |-> e.kind = "badstruct", t |-> e.t]
    ELSE IF e.kind \in {"rfc822", "iso", "garbage"}
         THEN [raised |-> FALSE,
               t |-> IF e.kind = "rfc822" THEN e.t
                     ELSE IF e.kind = "iso" THEN e.t ELSE t_now]
         ELSE [raised |-> FALSE, t |-> t_now]

Published(via, e, t_now) ==
    IF via = "google" THEN PublishedGoogle(e, t_now) ELSE PublishedRss(e, t_now)

\* the dictionary appended to articles
MakeArticle(url, t_pub, category, via) ==
    [url |-> url, published_datetime |-> t_pub, category |-> category,
     found_via |-> via, article_id |-> ArticleId(url)]

(***************************************************************************)
(* list.sort(key=published_datetime, reverse=True): a stable sort, equal   *)
(* keys keep their original relative order.                                *)
(***************************************************************************)
RECURSIVE InsertDesc(_, _)
InsertDesc(sorted, a) ==
    IF sorted = <<>> THEN <<a>>
    ELSE IF Head(sorted).published_datetime >= a.published_datetime
         THEN <<Head(sorted)>> \o InsertDesc(Tail(sorted), a)
         ELSE <<a>> \o sorted

\* a variant: a sort that puts an article before the articles of equal key
RECURSIVE InsertDescBeforeEqual(_, _)
InsertDescBeforeEqual(sorted, a) ==
    IF sorted = <<>> THEN <<a>>
    ELSE IF Head(sorted).published_datetime > a.published_datetime
         THEN <<Head(sorted)>> \o InsertDescBeforeEqual(Tail(sorted), a)
         ELSE <<a>> \o sorted

RECURSIVE SortNewestFirstUnstable(_)
SortNewestFirstUnstable(s) ==
    IF s = <<>> THEN <<>>
    ELSE InsertDescBeforeEqual(SortNewestFirstUnstable(SubSeq(s, 1, Len(s) - 1)),
                               s[Len(s)])

RECURSIVE SortNewestFirst(_)
SortNewestFirst(s) ==
    IF s = <<>> THEN <<>>
    ELSE InsertDesc(SortNewestFirst(SubSeq(s, 1, Len(s) - 1)), s[Len(s)])

(***************************************************************************)
(* The entry loop shared by both fetchers.  acc = [articles, seen, raised] *)
(* An exception inside the loop leaves the source's try block: the         *)
(* articles appended so far stay, the remaining entries are not looked at. *)
(***************************************************************************)
RECURSIVE ProcessEntries(_, _, _, _, _)
ProcessEntries(entries, acc, via, category, days) ==
    IF entries = <<>> THEN acc
    ELSE LET e == Head(entries)
             p == Published(via, e, now)
         IN  IF e.link \in acc.seen
             THEN ProcessEntries(Tail(entries), acc, via, category, days)
             ELSE IF p.raised
             THEN [acc EXCEPT !.raised = TRUE]
             ELSE IF TooOld(now, p.t, days)
             THEN ProcessEntries(Tail(entries), acc, via, category, days)
             ELSE ProcessEntries(Tail(entries),
                      [articles |-> Append(acc.articles,
                                       MakeArticle(e.link, p.t, category, via)),
                       seen |-> acc.seen \cup {e.link},
                       raised |-> FALSE],
                      via, category, days)

EmptyAcc == [articles |-> <<>>, seen |-> {}, raised |-> FALSE]

\* a variant: the keyword loop with the try block around the whole loop: the
\* first failing request ends it
RECURSIVE GoogleLoopAbortOnFailure(_, _, _, _, _)
GoogleLoopAbortOnFailure(kws, i, acc, days, max_results) ==
    IF i > Len(kws) THEN acc
    ELSE LET resp == gresp[kws[i]]
         IN  IF ~resp.ok
             THEN acc
             ELSE LET r == ProcessEntries(
                               Take(resp.entries, max_results \div Len(kws)),
                               acc, "google", kws[i], days)
                  IN  GoogleLoopAbortOnFailure(kws, i + 1,
                          [r EXCEPT !.raised = FALSE], days, max_results)

\* the "for keyword in keywords" loop of find_news_google
RECURSIVE GoogleLoop(_, _, _, _, _)
GoogleLoop(kws, i, acc, days, max_results) ==
    IF i > Len(kws) THEN acc
    ELSE LET resp == gresp[kws[i]]
         IN  IF ~resp.ok
             THEN GoogleLoop(kws, i + 1, acc, days, max_results)
             ELSE LET r == ProcessEntries(
                               Take(resp.entries, max_results \div Len(kws)),
                               acc, "google", kws[i], days)
                  IN  GoogleLoop(kws, i + 1, [r EXCEPT !.raised = FALSE],
                                 days, max_results)

find_news_google(kws, tp, max_results) ==
    IF kws = <<>> THEN <<>>
    ELSE Take(SortNewestFirst(
                GoogleLoop(kws, 1, EmptyAcc, WindowDays(tp), max_results).articles),
              max_results)

\* the "for feed_url in feed_urls" loop of find_news_rss
RECURSIVE RssLoop(_, _, _, _)
RssLoop(urls, i, acc, days) ==
    IF i > Len(urls) THEN acc
    ELSE LET resp == rresp[urls[i]]
         IN  IF ~resp.ok
             THEN RssLoop(urls, i + 1, acc, days)
             ELSE LET r == ProcessEntries(resp.entries, acc, "rss",
                                          resp.title, days)
                  IN  RssLoop(urls, i + 1, [r EXCEPT !.raised = FALSE], days)

find_news_rss(urls, tp) ==
    IF urls = <<>> THEN <<>>
    ELSE SortNewestFirst(RssLoop(urls, 1, EmptyAcc, WindowDays(tp)).articles)

(***************************************************************************)
(* find_news_background and the dashboard's incremental loop               *)
(***************************************************************************)
\* "for article in batch: if <guard> and url not in seen: append, add"
\* acc = [articles, seen]
\* a variant: the merge without the "not in seen" test
RECURSIVE MergeBatchNoSeenTest(_, _, _)
MergeBatchNoSeenTest(batch, acc, skipEmpty) ==
    IF batch = <<>> THEN acc
    ELSE MergeBatchNoSeenTest(Tail(batch),
             [articles |-> Append(acc.articles, Head(batch)),
              seen |-> acc.seen \cup {Head(batch).url}],
             skipEmpty)

RECURSIVE MergeBatch(_, _, _)
MergeBatch(batch, acc, skipEmpty) ==
    IF batch = <<>> THEN acc
    ELSE LET a == Head(batch)
         IN  IF (skipEmpty /\ a.url = UrlEmpty) \/ a.url \in acc.seen
             THEN MergeBatch(Tail(batch), acc, skipEmpty)
             ELSE MergeBatch(Tail(batch),
                             [articles |-> Append(acc.articles, a),
                              seen |-> acc.seen \cup {a.url}],
                             skipEmpty)

EmptyMerge == [articles |-> <<>>, seen |-> {}]

find_news_background(kws, urls, tp) ==
    LET google_articles == IF kws # <<>>
                           THEN find_news_google(kws, tp, DefaultMaxResults)
                           ELSE <<>>
        step1 == [articles |-> google_articles,
                  seen |-> {a.url : a \in Range(google_articles)}]
        step2 == IF urls # <<>>
                 THEN MergeBatch(find_news_rss(urls, tp), step1, FALSE)
                 ELSE step1
        unique_articles == MergeBatch(step2.articles, EmptyMerge, FALSE).articles
    IN  SortNewestFirst(unique_articles)

\* "STREAM GOOGLE RESULTS INCREMENTALLY": one find_news_google call per keyword
RECURSIVE StreamGoogle(_, _, _, _)
StreamGoogle(kws, i, acc, tp) ==
    IF i > Len(kws) THEN acc
    ELSE StreamGoogle(kws, i + 1,
             MergeBatch(find_news_google(<<kws[i]>>, tp, DefaultMaxResults),
                        acc, TRUE),
             tp)

\* "STREAM RSS RESULTS INCREMENTALLY": one find_news_rss call per feed
RECURSIVE StreamRss(_, _, _, _)
StreamRss(urls, i, acc, tp) ==
    IF i > Len(urls) THEN acc
    ELSE StreamRss(urls, i + 1,
             MergeBatch(find_news_rss(<<urls[i]>>, tp), acc, TRUE), tp)

DashboardDiscover(kws, urls, tp) ==
    SortNewestFirst(StreamRss(urls, 1, StreamGoogle(kws, 1, EmptyMerge, tp), tp).articles)

(***************************************************************************)
(* The environment of a discovery run                                      *)
(***************************************************************************)
KW1 == "battery recycling"
KW2 == "solar"
Feed1 == "https://feeds.example/one.xml"
Feed2 == "https://feeds.example/two.xml"

\* feed.feed.get("title", "RSS Feed") of the two feeds
FeedTitle(url) == IF url = Feed1 THEN "Feed One" ELSE "Feed Two"

EntriesOf(links, ages, kinds) ==
    {[link |-> l, kind |-> k, t |-> Now0 - a] : l \in links, a \in ages, k \in kinds}

Response(ok, title, entries) == [ok |-> ok, title |-> title, entries |-> entries]

\* how many entries the response of a source may hold, given what the
\* sources before it hold
Room(used, present) == IF present THEN Min(MaxEntries, MaxTotal - used) ELSE 0

\* The environments of one family: the keyword lists, feed lists and time
\* periods to draw from, the entries E a response may hold, and whether a
\* request may fail.
DiscoverInputs(kwLists, feedLists, periods, E, oks) ==
    /\ now = Now0
    /\ keywords \in kwLists
    /\ feed_urls \in feedLists
    /\ time_period \in periods
    /\ \E n1 \in 0..Room(0, KW1 \in Range(keywords)) :
       \E n2 \in 0..Room(n1, KW2 \in Range(keywords)) :
       \E n3 \in 0..Room(n1 + n2, Feed1 \in Range(feed_urls)) :
       \E n4 \in 0..Room(n1 + n2 + n3, Feed2 \in Range(feed_urls)) :
       \E e1 \in [1..n1 -> E], e2 \in [1..n2 -> E],
          e3 \in [1..n3 -> E], e4 \in [1..n4 -> E] :
       \E ok1 \in (IF KW1 \in Range(keywords) THEN oks ELSE {TRUE}),
          ok2 \in (IF KW2 \in Range(keywords) THEN oks ELSE {TRUE}),
          ok3 \in (IF Feed1 \in Range(feed_urls) THEN oks ELSE {TRUE}),
          ok4 \in (IF Feed2 \in Range(feed_urls) THEN oks ELSE {TRUE}) :
          /\ gresp = (KW1 :> Response(ok1, "", IF ok1 THEN e1 ELSE <<>>)) @@
                     (KW2 :> Response(ok2, "", IF ok2 THEN e2 ELSE <<>>))
          /\ rresp = (Feed1 :> Response(ok3, FeedTitle(Feed1), IF ok3 THEN e3 ELSE <<>>)) @@
                     (Feed2 :> Response(ok4, FeedTitle(Feed2), IF ok4 THEN e4 ELSE <<>>))
    /\ pc = "ready"
    /\ google_out = <<>>
    /\ rss_out = <<>>
    /\ background_out = <<>>
    /\ found_articles = <<>>
    /\ is_finding_news = FALSE
    /\ DashboardIdle

DiscoverEnv(kwLists, feedLists, periods, E, oks) ==
    DiscoverInputs(kwLists, feedLists, periods, E, oks) /\ AccessIdle

\* the discovery part of the state when no discovery has been run
DiscoveryIdle ==
    /\ now = Now0
    /\ keywords = <<>>
    /\ feed_urls = <<>>
    /\ time_period = "Last 7 days"
    /\ gresp = (KW1 :> Response(TRUE, "", <<>>)) @@ (KW2 :> Response(TRUE, "", <<>>))
    /\ rresp = (Feed1 :> Response(TRUE, FeedTitle(Feed1), <<>>)) @@
               (Feed2 :> Response(TRUE, FeedTitle(Feed2), <<>>))
    /\ pc = "ready"
    /\ google_out = <<>>
    /\ rss_out = <<>>
    /\ background_out = <<>>
    /\ found_articles = <<>>
    /\ is_finding_news = FALSE
    /\ DashboardIdle

envVars == <<keywords, feed_urls, time_period, gresp, rresp, now>>

(***************************************************************************)
(* The discovery operations                                                *)
(***************************************************************************)
\* a caller invokes find_news_google(keywords, time_period)
CallFindNewsGoogle ==
    /\ pc = "ready"
    /\ google_out' = find_news_google(keywords, time_period, DefaultMaxResults)
    /\ pc' = "google"
    /\ UNCHANGED <<envVars, rss_out, background_out, found_articles, is_finding_news,
                 dashboardVars, accessVars>>

\* a caller invokes find_news_rss(feed_urls, time_period)
CallFindNewsRss ==
    /\ pc = "ready"
    /\ rss_out' = find_news_rss(feed_urls, time_period)
    /\ pc' = "rss"
    /\ UNCHANGED <<envVars, google_out, background_out, found_articles, is_finding_news,
                 dashboardVars, accessVars>>

\* a caller invokes find_news_background(keywords, feed_urls, time_period)
CallFindNewsBackground ==
    /\ pc = "ready"
    /\ background_out' = find_news_background(keywords, feed_urls, time_period)
    /\ pc' = "background"
    /\ UNCHANGED <<envVars, google_out, rss_out, found_articles, is_finding_news,
                 dashboardVars, accessVars>>

\* the user clicks "Find News" on the dashboard: the whole
\* "if find_button or st.session_state.is_finding_news" block
FindNewsClick ==
    /\ pc = "ready"
    /\ IF keywords = <<>> /\ feed_urls = <<>>
       THEN found_articles' = found_articles
       ELSE found_articles' = DashboardDiscover(keywords, feed_urls, time_period)
    /\ is_finding_news' = FALSE
    /\ pc' = "dashboard"
    /\ UNCHANGED <<envVars, google_out, rss_out, background_out,
                 dashboardVars, accessVars>>

NextDiscover ==
    \/ CallFindNewsGoogle
    \/ CallFindNewsRss
    \/ CallFindNewsBackground
    \/ FindNewsClick

(***************************************************************************)
(* Specifications of the discovery pipeline, one per family of             *)
(* environments                                                            *)
(***************************************************************************)
\* urls repeated within and across the sources, all entries fresh
InitDedup ==
    DiscoverEnv({<<KW1>>, <<KW1, KW2>>}, {<<>>, <<Feed1>>}, {"Last 7 days"},
                EntriesOf({UrlEmpty, UrlA, UrlC1, UrlC2}, {0}, {"parsed"}),
                {TRUE})

SpecDedup == InitDedup /\ [][NextDiscover]_vars

\* entries of every age around the three windows
RecencyAges == {0, 24, 7 * 24, 7 * 24 + 3, 8 * 24, 10 * 24,
                14 * 24 + 3, 15 * 24, 30 * 24 + 3, 31 * 24}

InitRecency ==
    DiscoverEnv({<<>>, <<KW1>>}, {<<>>, <<Feed1>>}, TimePeriods,
                EntriesOf({UrlA, UrlB}, RecencyAges, {"parsed"}), {TRUE})

SpecRecency == InitRecency /\ [][NextDiscover]_vars

\* entries with equal and with different published times
InitOrder ==
    DiscoverEnv({<<KW1>>, <<KW1, KW2>>}, {<<>>, <<Feed1>>}, {"Last 7 days"},
                EntriesOf({UrlA, UrlB, UrlC1}, {0, 24}, {"parsed"}), {TRUE})

SpecOrder == InitOrder /\ [][NextDiscover]_vars

\* requests that fail, entries inside and outside the window
InitFailure ==
    DiscoverEnv({<<KW1, KW2>>}, {<<Feed1>>, <<Feed1, Feed2>>}, {"Last 7 days"},
                EntriesOf({UrlA, UrlB}, {0, 9 * 24}, {"parsed"}),
                {TRUE, FALSE})

SpecFailure == InitFailure /\ [][NextDiscover]_vars

(***************************************************************************)
(* Vocabulary of the discovery claims                                      *)
(***************************************************************************)
UrlsOf(list) == {list[i].url : i \in 1..Len(list)}

UniqueUrls(list) ==
    \A i, j \in 1..Len(list) : list[i].url = list[j].url => i = j

UniqueIds(list) ==
    \A i, j \in 1..Len(list) : list[i].article_id = list[j].article_id => i = j

\* the urls the search-feed fetcher produces in the run's calls of it
GoogleUrlsOfRun ==
    UrlsOf(find_news_google(keywords, time_period, DefaultMaxResults))

GoogleUrlsOfDashboard ==
    UNION {UrlsOf(find_news_google(<<keywords[i]>>, time_period, DefaultMaxResults)) :
           i \in 1..Len(keywords)}

RssUrlsOfRun == UrlsOf(find_news_rss(feed_urls, time_period))

\* every article of the list whose url the search-feed fetcher produced is
\* the search-feed copy, and that copy is in the list
SearchCopyKept(list, googleUrls, dropped) ==
    /\ \A i \in 1..Len(list) :
          list[i].url \in googleUrls => list[i].found_via = "google"
    /\ \A u \in googleUrls \ dropped : u \in UrlsOf(list)

\* the list of the operation that ran, and the urls the search-feed fetcher
\* produced for it
ResultOfRun == IF pc = "background" THEN background_out ELSE found_articles

RunHasResult == pc \in {"background", "dashboard"}

(***************************************************************************)
(* C1 (as stated): the list of a discovery run holds at most one article   *)
(* per url and no two articles with the same article_id, and a url the     *)
(* search-feed fetcher and the RSS fetcher both produced is kept as the    *)
(* search-feed copy.                                                       *)
(***************************************************************************)
C1_AsStated ==
    RunHasResult =>
        /\ UniqueUrls(ResultOfRun)
        /\ UniqueIds(ResultOfRun)
        /\ SearchCopyKept(ResultOfRun,
               IF pc = "background" THEN GoogleUrlsOfRun ELSE GoogleUrlsOfDashboard,
               IF pc = "background" THEN {} ELSE {UrlEmpty})

(***************************************************************************)
(* C1 (amended): the list of a discovery run holds at most one article per *)
(* url, every article_id is the 12 digit MD5 prefix of the article's url   *)
(* (so two articles share an id only if their urls share that prefix), and *)
(* a url the search-feed fetcher produced is kept as the search-feed copy. *)
(***************************************************************************)
C1_Dedup ==
    RunHasResult =>
        /\ UniqueUrls(ResultOfRun)
        /\ \A i \in 1..Len(ResultOfRun) :
              ResultOfRun[i].article_id = ArticleId(ResultOfRun[i].url)
        /\ SearchCopyKept(ResultOfRun,
               IF pc = "background" THEN GoogleUrlsOfRun ELSE GoogleUrlsOfDashboard,
               IF pc = "background" THEN {} ELSE {UrlEmpty})

\* a run in which both fetchers produced the same url
C1_Witness ==
    /\ pc = "background"
    /\ GoogleUrlsOfRun \cap RssUrlsOfRun # {}
    /\ Len(background_out) >= 2

(***************************************************************************)
(* C2 (as stated): for each window, an entry whose published time lies     *)
(* more than window_days before now, by any amount, is in the output of    *)
(* neither fetcher, and an entry at most window_days old is kept.          *)
(***************************************************************************)
AgeHours(a) == now - a.published_datetime

WindowHours == WindowDays(time_period) * HoursPerDay

\* the entries of a response that are at most the window old
FreshLinks(resp) ==
    {resp.entries[i].link : i \in {k \in 1..Len(resp.entries) :
                                now - resp.entries[k].t <= WindowHours}}

C2_Recency ==
    /\ pc = "google" =>
          /\ \A i \in 1..Len(google_out) : AgeHours(google_out[i]) <= WindowHours
          /\ \A k \in Range(keywords) : FreshLinks(gresp[k]) \subseteq UrlsOf(google_out)
    /\ pc = "rss" =>
          /\ \A i \in 1..Len(rss_out) : AgeHours(rss_out[i]) <= WindowHours
          /\ \A f \in Range(feed_urls) : FreshLinks(rresp[f]) \subseteq UrlsOf(rss_out)

(***************************************************************************)
(* C3: the list of a discovery run is ordered by published_datetime        *)
(* descending, and articles with equal published_datetime keep the order   *)
(* in which they were fetched: search-feed results before RSS results, and *)
(* fetch order within a fetcher.                                           *)
(***************************************************************************)
\* the entries of a response in the order the fetcher reads them, tagged
\* with the fetcher and the published time it resolves
Tagged(via, entries) ==
    [i \in 1..Len(entries) |->
        [via |-> via, link |-> entries[i].link,
         t |-> Published(via, entries[i], now).t]]

RECURSIVE FetchedGoogle(_, _)
FetchedGoogle(kws, perKeyword) ==
    IF kws = <<>> THEN <<>>
    ELSE Tagged("google", Take(gresp[Head(kws)].entries, perKeyword))
         \o FetchedGoogle(Tail(kws), perKeyword)

RECURSIVE FetchedRss(_)
FetchedRss(urls) ==
    IF urls = <<>> THEN <<>>
    ELSE Tagged("rss", rresp[Head(urls)].entries) \o FetchedRss(Tail(urls))

\* the fetch order of the operation that ran
FetchOrder ==
    IF pc = "google" THEN FetchedGoogle(keywords, DefaultMaxResults \div Len(keywords))
    ELSE IF pc = "background"
    THEN (IF keywords = <<>> THEN <<>>
          ELSE FetchedGoogle(keywords, DefaultMaxResults \div Len(keywords)))
         \o FetchedRss(feed_urls)
    ELSE FetchedGoogle(keywords, DefaultMaxResults) \o FetchedRss(feed_urls)

IsFetchOf(f, a) ==
    f.via = a.found_via /\ f.link = a.url /\ f.t = a.published_datetime

\* the places in the fetch order at which the article was read
FetchPlaces(a) == {k \in 1..Len(FetchOrder) : IsFetchOf(FetchOrder[k], a)}

FirstPlace(a) == CHOOSE k \in FetchPlaces(a) : \A m \in FetchPlaces(a) : k <= m

NewestFirstStable(list) ==
    /\ \A i \in 1..Len(list) : FetchPlaces(list[i]) # {}
    /\ \A i, j \in 1..Len(list) :
          i < j =>
            /\ list[i].published_datetime >= list[j].published_datetime
            /\ list[i].published_datetime = list[j].published_datetime
                  => FirstPlace(list[i]) < FirstPlace(list[j])

C3_Order ==
    /\ RunHasResult => NewestFirstStable(ResultOfRun)
    /\ pc = "google" /\ keywords # <<>> => NewestFirstStable(google_out)

\* a run whose list holds a search-feed article and an RSS article of the
\* same published time, and two search-feed articles of the same time
C3_Witness ==
    /\ pc = "background"
    /\ \E i, j \in 1..Len(background_out) :
          /\ i < j
          /\ background_out[i].published_datetime = background_out[j].published_datetime
          /\ background_out[i].found_via = "google"
          /\ background_out[j].found_via = "rss"
    /\ \E i, j \in 1..Len(background_out) :
          /\ i < j
          /\ background_out[i].published_datetime > background_out[j].published_datetime

(***************************************************************************)
(* C4: when the request of one keyword or one feed fails, the other        *)
(* sources are still processed, the failed source contributes no article,  *)
(* and the run returns every in-window article of the sources that         *)
(* succeeded.                                                              *)
(***************************************************************************)
FailedKeywords == {k \in Range(keywords) : ~gresp[k].ok}
FailedFeeds == {f \in Range(feed_urls) : ~rresp[f].ok}

NothingFromFailed(list) ==
    \A i \in 1..Len(list) :
        /\ list[i].found_via = "google" => list[i].category \notin FailedKeywords
        /\ list[i].found_via = "rss" =>
              list[i].category \notin {FeedTitle(f) : f \in FailedFeeds}

GoogleFresh == UNION {FreshLinks(gresp[k]) : k \in Range(keywords) \ FailedKeywords}
RssFresh == UNION {FreshLinks(rresp[f]) : f \in Range(feed_urls) \ FailedFeeds}

Lower(s) ==
    CASE s = "A@x.com" -> "a@x.com"
      [] s = "B@x.com" -> "b@x.com"
      [] s = " B@x.com " -> " b@x.com "
      [] s = "Premium" -> "premium"
      [] s = "Standard" -> "standard"
      [] s = "Basic" -> "basic"
      [] s = "Gold" -> "gold"
      [] s = "Active" -> "active"
      [] s = "Inactive" -> "inactive"
      [] s = "https://FEEDS.example/one.xml" -> "https://feeds.example/one.xml"
      [] OTHER -> s

Strip(s) ==
    CASE s = " B@x.com " -> "B@x.com"
      [] s = " b@x.com " -> "b@x.com"
      [] OTHER -> s

\* valid_until.strip(): a text of blanks becomes the empty string
StripText(t) == IF t.sep = " " THEN EmptyText ELSE t

validate_email(email) ==
    /\ email # ""
    /\ Lower(Strip(email)) \in {"a@x.com", "b@x.com", "c@x.com"}

validate_customer_id(customer_id) ==
    /\ customer_id # ""
    /\ customer_id \in CustomerIds

(***************************************************************************)
(* The tier table of the admin app and the one of the user app             *)
(***************************************************************************)
TIER_PERMISSIONS ==
    [premium |-> <<"view", "edit", "generate", "manage_config", "edit_config">>,
     standard |-> <<"view", "generate">>,
     basic |-> <<"view">>]

\* TIER_PERMISSIONS.get(key, ["view"])
TierPermissionsGet(key) ==
    IF key \in DOMAIN TIER_PERMISSIONS THEN TIER_PERMISSIONS[key] ELSE <<"view">>

\* the same lookup without the lower()
PermissionsForTierCaseSensitive(tier) == TierPermissionsGet(tier)

\* TIER_PERMISSIONS.get(tier.lower(), ["view"])
PermissionsForTier(tier) == TierPermissionsGet(Lower(tier))

get_permission_tier_requirements ==
    [premium |-> <<"view", "edit", "generate", "manage_config", "edit_config">>,
     standard |-> <<"view", "generate">>,
     basic |-> <<"view">>]

check_tier_permissions(tier, required_permission) ==
    LET tier_reqs == get_permission_tier_requirements
        tier_perms == IF Lower(tier) \in DOMAIN tier_reqs
                      THEN tier_reqs[Lower(tier)] ELSE <<"view">>
    IN required_permission \in Range(tier_perms)

(***************************************************************************)
(* User access records                                                     *)
(***************************************************************************)
UserRecord(email, password, tier, role, permissions, status, valid_until) ==
    [email |-> email, password |-> password, tier |-> tier, role |-> role,
     permissions |-> permissions, status |-> status,
     valid_until |-> valid_until]

\* the record add_user_access and create_customer_record build
NewUser(email, password, tier, role, valid_until) ==
    UserRecord(email, password, Lower(tier), role, PermissionsForTier(tier),
               "Active", valid_until)

\* the index of the first user whose e-mail is exactly email, 0 when there
\* is none
MatchIndexExact(users, email) ==
    IF \E i \in 1..Len(users) : users[i].email = email
    THEN CHOOSE i \in 1..Len(users) :
            /\ users[i].email = email
            /\ \A j \in 1..(i - 1) : users[j].email # email
    ELSE 0

\* the index of the first user whose e-mail is email whatever the case,
\* 0 when there is none
MatchIndex(users, email) ==
    IF \E i \in 1..Len(users) : Lower(users[i].email) = Lower(email)
    THEN CHOOSE i \in 1..Len(users) :
            /\ Lower(users[i].email) = Lower(email)
            /\ \A j \in 1..(i - 1) : Lower(users[j].email) # Lower(email)
    ELSE 0

(***************************************************************************)
(* The admin operations of customer_manager.py.  Every read and write of   *)
(* the repository may fail; the parameter io says which ones succeed.      *)
(***************************************************************************)
\* the outcomes of the repository calls of create_customer_record; a call
\* that is not reached counts as succeeded
CreateOutcomes ==
    {io \in [list_ok : BOOLEAN, folder_ok : BOOLEAN, info_ok : BOOLEAN,
             branding_ok : BOOLEAN, keywords_ok : BOOLEAN, feeds_ok : BOOLEAN,
             access_ok : BOOLEAN] :
        /\ ~io.folder_ok => io.info_ok
        /\ ~(io.folder_ok /\ io.info_ok) =>
              io.branding_ok /\ io.keywords_ok /\ io.feeds_ok
        /\ ~(io.folder_ok /\ io.info_ok /\ io.feeds_ok) => io.access_ok}

\* the outcomes of get_user_access and update_user_access
AccessOutcomes ==
    {io \in [read_ok : BOOLEAN, write_ok : BOOLEAN] : ~io.read_ok => io.write_ok}

AdminRet(op, customer_id, email, tier, result) ==
    [op |-> op, customer_id |-> customer_id, email |-> email, tier |-> tier,
     result |-> result]

\* update_user_access(customer_id, {"users": users})
WriteUserAccess(c, users) ==
    /\ user_access' = [user_access EXCEPT ![c] = [exists |-> TRUE, users |-> users]]
    /\ customer_dirs' = customer_dirs \cup {c}

\* the files of a tenant
TenantFiles(c) ==
    IF c \in CustomerIds
    THEN [folder |-> c \in customer_dirs, customer_info |-> customer_info[c],
          branding |-> branding[c], keywords |-> keywords_cfg[c],
          feeds |-> feeds_cfg[c], user_access |-> user_access[c]]
    ELSE [folder |-> FALSE, customer_info |-> NoCustomerInfo,
          branding |-> NoBranding, keywords |-> NoKeywords,
          feeds |-> NoFeeds, user_access |-> NoUserAccess]

create_customer_record(customer_data, io) ==
    LET customer_id == customer_data.customer_id
        contact_email == customer_data.contact_email
        subscription_tier == customer_data.subscription_tier
        existing == IF io.list_ok THEN customer_dirs ELSE {}
        accepted == /\ validate_customer_id(customer_id)
                    /\ Strip(contact_email) # "" => validate_email(Strip(contact_email))
                    /\ customer_id \notin existing
                    /\ io.folder_ok
        success == accepted /\ io.info_ok
        initial_user == NewUser(contact_email, customer_data.initial_password,
                                subscription_tier, "admin",
                                customer_data.valid_until)
    IN /\ customer_dirs' = IF accepted THEN customer_dirs \cup {customer_id}
                           ELSE customer_dirs
       /\ customer_info' = IF success
                           THEN [customer_info EXCEPT ![customer_id] =
                                   [exists |-> TRUE, contact_email |-> contact_email]]
                           ELSE customer_info
       /\ branding' = IF success /\ io.branding_ok
                      THEN [branding EXCEPT ![customer_id] =
                              [exists |-> TRUE,
                               application_name |-> customer_data.application_name]]
                      ELSE branding
       /\ keywords_cfg' = IF success /\ io.keywords_ok
                          THEN [keywords_cfg EXCEPT ![customer_id] =
                                  [exists |-> TRUE, keywords |-> customer_data.keywords]]
                          ELSE keywords_cfg
       /\ feeds_cfg' = IF success /\ io.feeds_ok
                       THEN [feeds_cfg EXCEPT ![customer_id] =
                               [exists |-> TRUE, feeds |-> customer_data.feeds]]
                       ELSE feeds_cfg
       /\ user_access' = IF success /\ io.feeds_ok /\ contact_email # "" /\ io.access_ok
                         THEN [user_access EXCEPT ![customer_id] =
                                 [exists |-> TRUE, users |-> <<initial_user>>]]
                         ELSE user_access
       /\ ret' = AdminRet("create_customer_record", customer_id, contact_email,
                          subscription_tier, success /\ io.feeds_ok)
                  @@ [existed |-> customer_id \in customer_dirs]
       /\ UNCHANGED <<sessionVars, envVars, pc, google_out, rss_out,
                      background_out, found_articles, is_finding_news,
                      selected_article_ids, newsletter_files, session_state,
                      writers, google_call>>

add_user_access(customer_id, email, tier, role, password, io) ==
    LET normalized == Lower(Strip(email))
        users == IF io.read_ok THEN user_access[customer_id].users ELSE <<>>
        new_user == NewUser(normalized, password, tier, Lower(role), EmptyText)
        result == /\ validate_email(email)
                  /\ MatchIndex(users, normalized) = 0
                  /\ io.write_ok
    IN /\ IF result
          THEN WriteUserAccess(customer_id, Append(users, new_user))
          ELSE UNCHANGED <<user_access, customer_dirs>>
       /\ ret' = AdminRet("add_user_access", customer_id, email, tier, result)
       /\ UNCHANGED <<branding, sessionVars, discoveryVars>>

update_user_tier(customer_id, email, new_tier, io) ==
    LET users == user_access[customer_id].users
        i == MatchIndex(users, email)
        updated == [users EXCEPT ![i].tier = Lower(new_tier),
                                 ![i].permissions = PermissionsForTier(new_tier)]
        result == io.read_ok /\ i > 0 /\ io.write_ok
    IN /\ IF result
          THEN WriteUserAccess(customer_id, updated)
          ELSE UNCHANGED <<user_access, customer_dirs>>
       /\ ret' = AdminRet("update_user_tier", customer_id, email, new_tier, result)
       /\ UNCHANGED <<branding, sessionVars, discoveryVars>>

remove_user_access(customer_id, email, io) ==
    LET users == user_access[customer_id].users
        kept == SelectSeq(users, LAMBDA u : Lower(u.email) # Lower(email))
        result == io.read_ok /\ Len(kept) # Len(users) /\ io.write_ok
    IN /\ IF result
          THEN WriteUserAccess(customer_id, kept)
          ELSE UNCHANGED <<user_access, customer_dirs>>
       /\ ret' = AdminRet("remove_user_access", customer_id, email, "", result)
       /\ UNCHANGED <<branding, sessionVars, discoveryVars>>


(***************************************************************************)
(* get_user_newsletters: the scan of every tenant's user list              *)
(***************************************************************************)
\* load_config(customer_id, "branding")["application_name"]; for a missing
\* file load_config returns the default branding, whose name is ""
BrandingName(c) ==
    IF branding[c].exists THEN branding[c].application_name ELSE ""

\* the tenants whose user list holds the e-mail
Matched(email) ==
    {c \in customer_dirs :
        /\ user_access[c].exists
        /\ MatchIndex(user_access[c].users, email) > 0}

\* load_config creates the default branding.json of a tenant that has none;
\* the save may fail
BrandingAfterLoad(email) ==
    IF email = "" THEN {branding}
    ELSE {[c \in CustomerIds |->
             IF c \in S THEN [exists |-> TRUE, application_name |-> ""]
             ELSE branding[c]] :
          S \in SUBSET {c \in Matched(email) : ~branding[c].exists}}

NewsletterOf(c, user) ==
    [customer_id |-> c, name |-> BrandingName(c), tier |-> user.tier,
     role |-> user.role, permissions |-> user.permissions,
     password |-> user.password, status |-> user.status,
     valid_until |-> user.valid_until]

\* for access_data in all_access_files: ... append, break
RECURSIVE ScanTenants(_, _)
ScanTenants(email, i) ==
    IF i > Len(ScanOrder) THEN <<>>
    ELSE LET c == ScanOrder[i]
             users == user_access[c].users
             k == MatchIndex(users, email)
         IN (IF c \in customer_dirs /\ user_access[c].exists /\ k > 0
             THEN <<NewsletterOf(c, users[k])>> ELSE <<>>)
            \o ScanTenants(email, i + 1)

\* the order of Python strings (by code point) on the display names
NameRank(name) ==
    CASE name = "" -> 0
      [] name = "Acme News" -> 1
      [] name = "Beta Brief" -> 2
      [] name = "acme news" -> 3

\* insert n behind every element whose name is not greater
InsertByName(sorted, n) ==
    LET before == {i \in 1..Len(sorted) :
                      NameRank(sorted[i].name) <= NameRank(n.name)}
        k == Cardinality(before)
    IN SubSeq(sorted, 1, k) \o <<n>> \o SubSeq(sorted, k + 1, Len(sorted))

\* insert n in front of the elements with the same name
InsertByNameBeforeEqual(sorted, n) ==
    LET before == {i \in 1..Len(sorted) :
                      NameRank(sorted[i].name) < NameRank(n.name)}
        k == Cardinality(before)
    IN SubSeq(sorted, 1, k) \o <<n>> \o SubSeq(sorted, k + 1, Len(sorted))

RECURSIVE SortByNameUnstable(_)
SortByNameUnstable(s) ==
    IF s = <<>> THEN <<>>
    ELSE InsertByNameBeforeEqual(SortByNameUnstable(SubSeq(s, 1, Len(s) - 1)),
                                 s[Len(s)])

\* user_newsletters.sort(key=lambda x: x["name"])
RECURSIVE SortByName(_)
SortByName(s) ==
    IF s = <<>> THEN <<>>
    ELSE InsertByName(SortByName(SubSeq(s, 1, Len(s) - 1)), s[Len(s)])

get_user_newsletters(email) ==
    IF email = "" THEN <<>> ELSE SortByName(ScanTenants(email, 1))

(***************************************************************************)
(* authenticate_user                                                       *)
(***************************************************************************)
Today == <<2025, 3, 20>>      \* datetime.now().date() as <<year, month, day>>

NoDate == <<>>

DaysInMonth(y, m) ==
    IF m = 2
    THEN (IF (y % 4 = 0 /\ y % 100 # 0) \/ y % 400 = 0 THEN 29 ELSE 28)
    ELSE IF m \in {4, 6, 9, 11} THEN 30 ELSE 31

\* the digit groups y, m, d are a four digit year, a month and a day of it
IsDate(y, m, d) ==
    /\ y \in 1000..9999
    /\ m \in 1..12
    /\ d \in 1..DaysInMonth(y, m)

\* datetime.strptime(text, fmt).date(), NoDate for a ValueError
strptime(t, fmt) ==
    CASE fmt = "%d/%m/%Y" ->
           IF t.sep = "/" /\ IsDate(t.c, t.b, t.a) THEN <<t.c, t.b, t.a>> ELSE NoDate
      [] fmt = "%Y-%m-%d" ->
           IF t.sep = "-" /\ IsDate(t.a, t.b, t.c) THEN <<t.a, t.b, t.c>> ELSE NoDate
      [] fmt = "%m/%d/%Y" ->
           IF t.sep = "/" /\ IsDate(t.c, t.a, t.b) THEN <<t.c, t.a, t.b>> ELSE NoDate

date_formats == <<"%d/%m/%Y", "%Y-%m-%d", "%m/%d/%Y">>

\* for fmt in date_formats: try ... break / except ValueError: continue
RECURSIVE ParseValidUntil(_, _)
ParseValidUntil(t, i) ==
    IF i > Len(date_formats) THEN NoDate
    ELSE LET d == strptime(t, date_formats[i])
         IN IF d # NoDate THEN d ELSE ParseValidUntil(t, i + 1)

\* d1 <= d2 on dates
DateNotAfter(d1, d2) ==
    \/ d1[1] < d2[1]
    \/ d1[1] = d2[1] /\ d1[2] < d2[2]
    \/ d1[1] = d2[1] /\ d1[2] = d2[2] /\ d1[3] <= d2[3]

\* d1 < d2 on dates
DateBefore(d1, d2) ==
    \/ d1[1] < d2[1]
    \/ d1[1] = d2[1] /\ d1[2] < d2[2]
    \/ d1[1] = d2[1] /\ d1[2] = d2[2] /\ d1[3] < d2[3]

\* an expiry check that also rejects on the day of valid_until
ExpiredOnTheDay(valid_until, today) ==
    LET valid_until_str == StripText(valid_until)
    IN /\ valid_until_str # EmptyText
       /\ LET d == ParseValidUntil(valid_until_str, 1)
          IN d # NoDate /\ DateNotAfter(d, today)

\* the expiry check of authenticate_user
Expired(valid_until, today) ==
    LET valid_until_str == StripText(valid_until)
    IN /\ valid_until_str # EmptyText
       /\ LET d == ParseValidUntil(valid_until_str, 1)
          IN d # NoDate /\ DateBefore(d, today)

\* the first newsletter whatever its password
PasswordMatchAny(newsletters, password) ==
    IF newsletters = <<>> THEN 0 ELSE 1

\* the index of the first newsletter whose stored password equals the given
\* one, 0 when there is none
PasswordMatch(newsletters, password) ==
    IF \E i \in 1..Len(newsletters) : newsletters[i].password = password
    THEN CHOOSE i \in 1..Len(newsletters) :
            /\ newsletters[i].password = password
            /\ \A j \in 1..(i - 1) : newsletters[j].password # password
    ELSE 0

MsgRequired == "Email and password are required."
MsgInvalid == "Invalid email or password."
MsgInactive == "Your account is not active. Contact administrator."
MsgExpired == "Your account has expired. Contact administrator."
MsgEnterBoth == "Please enter both email and password."

AuthResult(ok, error, user) == [ok |-> ok, error |-> error, user |-> user]

\* returns (is_authenticated, error_message, user_data); user_data is the
\* list <<record>>, or <<>> for None
authenticate_user(email, password) ==
    IF email = "" \/ password = "" THEN AuthResult(FALSE, MsgRequired, <<>>)
    ELSE
    LET newsletters == get_user_newsletters(email)
        k == PasswordMatch(newsletters, password)
    IN IF newsletters = <<>> THEN AuthResult(FALSE, MsgInvalid, <<>>)
       ELSE IF k = 0 THEN AuthResult(FALSE, MsgInvalid, <<>>)
       ELSE IF Lower(Strip(newsletters[k].status)) # "active"
            THEN AuthResult(FALSE, MsgInactive, <<>>)
       ELSE IF Expired(newsletters[k].valid_until, Today)
            THEN AuthResult(FALSE, MsgExpired, <<>>)
       ELSE AuthResult(TRUE, "", <<newsletters[k]>>)

(***************************************************************************)
(* get_user_permissions and has_permission                                 *)
(***************************************************************************)
\* returns the dictionary {tier, role, permissions}; found is FALSE for {}
get_user_permissions(email, customer_id) ==
    LET users == user_access[customer_id].users
        k == MatchIndex(users, email)
    IN IF email = "" \/ customer_id = "" \/ k = 0
       THEN [found |-> FALSE, tier |-> "", role |-> "", permissions |-> <<>>]
       ELSE [found |-> TRUE, tier |-> users[k].tier, role |-> users[k].role,
             permissions |-> users[k].permissions]

\* "view" treated like every other permission name
has_permission_by_membership(email, customer_id, permission_name) ==
    permission_name \in Range(get_user_permissions(email, customer_id).permissions)

has_permission(email, customer_id, permission_name) ==
    LET user_permissions == get_user_permissions(email, customer_id).permissions
    IN IF permission_name = "view"
       THEN Len(user_permissions) > 0
       ELSE permission_name \in Range(user_permissions)


(***************************************************************************)
(* The user app: one run of main() per user interaction                    *)
(***************************************************************************)
\* the login form is submitted with these two fields
Login(email, password) ==
    /\ ~authenticated
    /\ LET r == IF email # "" /\ password # ""
                THEN authenticate_user(email, password)
                ELSE AuthResult(FALSE, MsgEnterBoth, <<>>)
       IN /\ authenticated' = r.ok
          /\ user_email' = IF r.ok THEN email ELSE user_email
          /\ session_valid_until' = IF r.ok /\ r.user # <<>>
                                    THEN r.user[1].valid_until
                                    ELSE session_valid_until
          /\ ret' = [op |-> "login", email |-> email, password |-> password,
                     ok |-> r.ok, error |-> r.error, user |-> r.user]
    /\ branding' \in BrandingAfterLoad(IF password # "" THEN email ELSE "")
    /\ UNCHANGED <<customer_dirs, user_access, current_customer_id,
                   user_newsletters, config_cache, discoveryVars>>

\* the newsletters this run of main() works with: always a fresh scan
RenderNewslettersCached(email) ==
    IF user_newsletters # <<>> THEN user_newsletters
    ELSE get_user_newsletters(email)

RenderNewsletters(email) == get_user_newsletters(email)

RenderRet(page, customer_id, has_edit_config, can_generate, newsletters) ==
    [op |-> "render", page |-> page, customer_id |-> customer_id,
     has_edit_config |-> has_edit_config, can_generate |-> can_generate,
     newsletters |-> newsletters, cached |-> user_newsletters]

\* load_customer_config(customer_id): the session's cached entry if there is
\* one, a fresh load otherwise
ConfigAfterLoad(customer_id) ==
    IF config_cache.exists /\ config_cache.customer_id = customer_id
    THEN config_cache
    ELSE [exists |-> TRUE, customer_id |-> customer_id,
          application_name |-> BrandingName(customer_id)]

\* a run of main() for a logged-in user; selected_name is the value of the
\* company select box
Render(selected_name) ==
    /\ authenticated
    /\ branding' \in BrandingAfterLoad(user_email)
    /\ LET newsletters == RenderNewsletters(user_email)
           has_edit_config == has_permission(user_email, current_customer_id,
                                             "edit_config")
           names == {newsletters[i].name : i \in 1..Len(newsletters)}
       IN IF newsletters = <<>>
          THEN \* "No Newsletters Available"
               /\ selected_name = ""
               /\ ret' = RenderRet("none", current_customer_id, FALSE, FALSE,
                                   newsletters)
               /\ UNCHANGED <<user_newsletters, current_customer_id, config_cache>>
          ELSE
          /\ selected_name \in names
          /\ user_newsletters' = newsletters
          /\ LET first == CHOOSE i \in 1..Len(newsletters) :
                             /\ newsletters[i].name = selected_name
                             /\ \A j \in 1..(i - 1) :
                                   newsletters[j].name # selected_name
                 selected_customer_id == newsletters[first].customer_id
             IN IF selected_customer_id # current_customer_id
                THEN \* the company changed: clear the config cache, st.rerun()
                     /\ current_customer_id' = selected_customer_id
                     /\ config_cache' = NoConfigCache
                     /\ ret' = RenderRet("switch", current_customer_id,
                                         has_edit_config, FALSE, newsletters)
                ELSE \* the page is rendered; current_newsletter is the
                     \* record of the current customer
                     /\ config_cache' = ConfigAfterLoad(current_customer_id)
                     /\ ret' = RenderRet("main", current_customer_id,
                                         has_edit_config,
                                         "generate" \in
                                            Range(newsletters[first].permissions),
                                         newsletters)
                     /\ UNCHANGED current_customer_id
    /\ UNCHANGED <<customer_dirs, user_access, authenticated, user_email,
                   session_valid_until, discoveryVars>>

\* the Logout button
Logout ==
    /\ authenticated
    /\ authenticated' = FALSE
    /\ user_email' = ""
    /\ current_customer_id' = ""
    /\ user_newsletters' = <<>>
    /\ found_articles' = <<>>
    /\ selected_article_ids' = {}
    /\ ret' = [op |-> "logout"]
    /\ UNCHANGED <<storeVars, session_valid_until, config_cache, envVars, pc,
                   google_out, rss_out, background_out, is_finding_news,
                   newsletter_files, session_state, writers, configVars, runVars>>

\* direct calls of the resolvers
CallHasPermission(email, customer_id, permission_name) ==
    /\ ret' = [op |-> "has_permission", email |-> email,
               customer_id |-> customer_id,
               permission_name |-> permission_name,
               result |-> has_permission(email, customer_id, permission_name)]
    /\ UNCHANGED <<storeVars, sessionVars, discoveryVars>>

\* the permission check of a page of the logged-in user
CheckPermission(permission_name) ==
    /\ authenticated
    /\ current_customer_id # ""
    /\ CallHasPermission(user_email, current_customer_id, permission_name)

CallGetUserNewsletters(email) ==
    /\ branding' \in BrandingAfterLoad(email)
    /\ ret' = [op |-> "get_user_newsletters", email |-> email,
               result |-> get_user_newsletters(email)]
    /\ UNCHANGED <<customer_dirs, user_access, sessionVars, discoveryVars>>

\* the table lookup reads nothing of the repository; it is exercised on
\* the empty one
CallCheckTierPermissions(tier, required_permission) ==
    /\ customer_dirs = {}
    /\ ret' = [op |-> "check_tier_permissions", tier |-> tier,
               permission_name |-> required_permission,
               result |-> check_tier_permissions(tier, required_permission)]
    /\ UNCHANGED <<storeVars, sessionVars, discoveryVars>>

(***************************************************************************)
(* Inputs of the access operations                                         *)
(***************************************************************************)
AdminCustomers == {"acme", "beta"}

\* the customer_data the onboarding wizard passes
CustomerData(customer_id, contact_email, subscription_tier, application_name) ==
    [customer_id |-> customer_id, contact_email |-> contact_email,
     subscription_tier |-> subscription_tier,
     application_name |-> application_name,
     initial_password |-> "changeme123", valid_until |-> EmptyText,
     keywords |-> <<>>, feeds |-> <<>>]

AdminTiers == {"Premium", "Standard", "Basic", "Gold"}

PermissionNames == {"view", "edit", "generate", "manage_config", "edit_config"}

LoginEmails == {"", "a@x.com", "b@x.com", "c@x.com"}

LoginPasswords == {"", "pw1", "pw2", "changeme123"}

\* the names the company select box can show
SelectableNames == {"", "Acme News", "Beta Brief", "acme news"}

(***************************************************************************)
(* The admin app working on a repository that starts empty                 *)
(***************************************************************************)
NextAdmin ==
    \/ \E c \in {"acme", "Bad Id"}, e \in {"", "A@x.com"},
          t \in {"Premium", "Gold"},
          io \in {o \in CreateOutcomes : o.keywords_ok} :
          /\ create_customer_record(CustomerData(c, e, t, "Acme News"), io)
          /\ UNCHANGED wizardVars
    \/ \E e \in {"a@x.com", " B@x.com ", "not-an-email"},
          t \in AdminTiers, io \in AccessOutcomes :
          add_user_access("acme", e, t, "viewer", "changeme123", io)
    \/ \E e \in {"A@x.com", "b@x.com"}, t \in AdminTiers, io \in AccessOutcomes :
          update_user_tier("acme", e, t, io)
    \/ \E e \in {"A@x.com", "b@x.com"}, io \in AccessOutcomes :
          remove_user_access("acme", e, io)
    \/ \E t \in AdminTiers \cup {"premium", "standard", "basic"},
          p \in PermissionNames :
          CallCheckTierPermissions(t, p)

InitAdmin == DiscoveryIdle /\ AccessIdle

SpecAdmin == InitAdmin /\ [][NextAdmin]_vars

(***************************************************************************)
(* The user app working on a repository that does not change               *)
(***************************************************************************)
\* has_permission called with any arguments
NextPerms ==
    \E e \in LoginEmails \ {""}, c \in CustomerIds, p \in PermissionNames :
       CallHasPermission(e, c, p)

\* users logging in and out
NextAuth ==
    \/ \E e \in LoginEmails, p \in LoginPasswords : Login(e, p)
    \/ Logout

\* get_user_newsletters called with any e-mail
NextNames ==
    \E e \in LoginEmails : CallGetUserNewsletters(e)

FileOf(users) == [exists |-> TRUE, users |-> users]

BrandingOf(name) == [exists |-> TRUE, application_name |-> name]

\* the folders are those of the tenants that have a file
DirsOf(ua, br) == {c \in CustomerIds : ua[c].exists \/ br[c].exists}

\* ---- user lists whose records carry any permission list
TierAndPermissions ==
    {<<"premium", TIER_PERMISSIONS["premium"]>>,
     <<"standard", TIER_PERMISSIONS["standard"]>>,
     <<"basic", TIER_PERMISSIONS["basic"]>>,
     <<"basic", <<>>>>,
     <<"standard", <<"generate">>>>}

UsersWithPermissions(email) ==
    {UserRecord(email, "pw1", tp[1], "viewer", tp[2], "Active", EmptyText) :
        tp \in TierAndPermissions}

InitPerms ==
    /\ DiscoveryIdle
    /\ FreshSession
    /\ \E acme \in {NoUserAccess, FileOf(<<>>)}
                   \cup {FileOf(<<u>>) : u \in UsersWithPermissions("A@x.com")
                                              \cup UsersWithPermissions("b@x.com")}
                   \cup {FileOf(<<u, v>>) : u \in UsersWithPermissions("A@x.com"),
                                            v \in UsersWithPermissions("b@x.com")},
          beta \in {NoUserAccess,
                    FileOf(<<UserRecord("a@x.com", "pw1", "standard", "viewer",
                                        TIER_PERMISSIONS["standard"], "Active",
                                        EmptyText)>>)} :
          /\ user_access = [c \in CustomerIds |->
                              IF c = "acme" THEN acme
                              ELSE IF c = "beta" THEN beta ELSE NoUserAccess]
          /\ branding = [c \in CustomerIds |-> NoBranding]
          /\ customer_dirs = DirsOf(user_access, branding)

SpecPerms == InitPerms /\ [][NextPerms]_vars

\* ---- user lists whose records differ in password, status and expiry
PastText == DateText(19, "/", 3, 2025)       \* "19/03/2025"
FutureText == DateText(2025, "-", 3, 21)     \* "2025-03-21"

UsersToAuthenticate ==
    {UserRecord(e, pw, "standard", "viewer", TIER_PERMISSIONS["standard"], st, vu) :
        e \in {"A@x.com", "b@x.com"}, pw \in {"pw1", "pw2"},
        st \in {"Active", "Inactive"}, vu \in {EmptyText, PastText, FutureText}}

InitAuth ==
    /\ DiscoveryIdle
    /\ FreshSession
    /\ \E acme, beta \in {NoUserAccess} \cup {FileOf(<<u>>) : u \in UsersToAuthenticate},
          beta_name \in {"Acme News", "Beta Brief"} :
          /\ user_access = [c \in CustomerIds |->
                              IF c = "acme" THEN acme
                              ELSE IF c = "beta" THEN beta ELSE NoUserAccess]
          /\ branding = [c \in CustomerIds |->
                           IF c = "acme" /\ acme.exists THEN BrandingOf("Beta Brief")
                           ELSE IF c = "beta" /\ beta.exists THEN BrandingOf(beta_name)
                           ELSE NoBranding]
          /\ customer_dirs = DirsOf(user_access, branding)

SpecAuth == InitAuth /\ [][NextAuth]_vars

\* ---- one user whose valid_until is any of these texts
ValidUntilTexts ==
    {EmptyText,                       \* ""
     DateText(0, " ", 0, 0),          \* "   "
     DateText(0, "x", 0, 0),          \* "never"
     DateText(19, "/", 3, 2025),      \* "19/03/2025"
     DateText(20, "/", 3, 2025),      \* "20/03/2025"
     DateText(21, "/", 3, 2025),      \* "21/03/2025"
     DateText(3, "/", 4, 2025),       \* "03/04/2025"
     DateText(4, "/", 3, 2025),       \* "04/03/2025"
     DateText(3, "/", 15, 2025),      \* "03/15/2025"
     DateText(3, "/", 25, 2025),      \* "03/25/2025"
     DateText(31, "/", 2, 2025),      \* "31/02/2025"
     DateText(2025, "-", 3, 19),      \* "2025-03-19"
     DateText(2025, "-", 3, 20),      \* "2025-03-20"
     DateText(2024, "-", 2, 29),      \* "2024-02-29"
     DateText(2025, "-", 2, 29),      \* "2025-02-29"
     DateText(19, "-", 3, 2025),      \* "19-03-2025"
     DateText(2025, "/", 3, 19)}      \* "2025/03/19"

InitExpiry ==
    /\ DiscoveryIdle
    /\ FreshSession
    /\ \E vu \in ValidUntilTexts,
          beta \in {NoUserAccess}
                   \cup {FileOf(<<UserRecord("b@x.com", "pw2", "basic", "viewer",
                                             TIER_PERMISSIONS["basic"], "Active",
                                             t)>>) : t \in {PastText, FutureText}} :
          /\ user_access = [c \in CustomerIds |->
                              IF c = "acme"
                              THEN FileOf(<<UserRecord("a@x.com", "pw1", "premium",
                                                       "admin",
                                                       TIER_PERMISSIONS["premium"],
                                                       "Active", vu)>>)
                              ELSE IF c = "beta" THEN beta ELSE NoUserAccess]
          /\ branding = [c \in CustomerIds |->
                           IF c = "acme" THEN BrandingOf("Acme News") ELSE NoBranding]
          /\ customer_dirs = DirsOf(user_access, branding)

SpecExpiry == InitExpiry /\ [][NextAuth]_vars

\* ---- three tenants with equal and with different display names
UserListsToScan ==
    {<<>>,
     <<UserRecord("A@x.com", "pw1", "premium", "admin",
                  TIER_PERMISSIONS["premium"], "Active", EmptyText)>>,
     <<UserRecord("b@x.com", "pw2", "standard", "editor",
                  TIER_PERMISSIONS["standard"], "Active", EmptyText)>>,
     <<UserRecord("b@x.com", "pw2", "standard", "editor",
                  TIER_PERMISSIONS["standard"], "Active", EmptyText),
       UserRecord("a@x.com", "pw1", "basic", "viewer",
                  TIER_PERMISSIONS["basic"], "Active", EmptyText)>>}

TenantsToScan ==
    {<<NoUserAccess, NoBranding>>, <<NoUserAccess, BrandingOf("Acme News")>>}
    \cup {<<FileOf(us), br>> :
             us \in UserListsToScan,
             br \in {NoBranding, BrandingOf("Acme News"), BrandingOf("acme news")}}

InitNames ==
    /\ DiscoveryIdle
    /\ FreshSession
    /\ \E tenant \in [CustomerIds -> TenantsToScan] :
          /\ user_access = [c \in CustomerIds |-> tenant[c][1]]
          /\ branding = [c \in CustomerIds |-> tenant[c][2]]
          /\ customer_dirs = DirsOf(user_access, branding)

SpecNames == InitNames /\ [][NextNames]_vars

(***************************************************************************)
(* The admin changes a user's access while that user works in the user app *)
(***************************************************************************)
NextLive ==
    \/ \E t \in {"Premium", "Standard", "Basic"}, io \in AccessOutcomes :
          update_user_tier("acme", "a@x.com", t, io)
    \/ \E io \in AccessOutcomes : remove_user_access("acme", "a@x.com", io)
    \/ \E t \in {"Premium", "Standard", "Basic"}, io \in AccessOutcomes :
          add_user_access("acme", "a@x.com", t, "viewer", "changeme123", io)
    \/ Login("A@x.com", "changeme123")
    \/ \E n \in SelectableNames : Render(n)
    \/ Logout
    \/ \E p \in {"view", "generate", "edit_config"} : CheckPermission(p)

InitLive ==
    /\ DiscoveryIdle
    /\ FreshSession
    /\ customer_dirs = AdminCustomers
    /\ user_access = [c \in CustomerIds |->
                        IF c = "acme"
                        THEN FileOf(<<NewUser("a@x.com", "changeme123", "Premium",
                                              "admin", EmptyText)>>)
                        ELSE IF c = "beta"
                        THEN FileOf(<<NewUser("a@x.com", "changeme123", "Basic",
                                              "viewer", EmptyText)>>)
                        ELSE NoUserAccess]
    /\ branding = [c \in CustomerIds |->
                     IF c = "acme" THEN BrandingOf("Acme News")
                     ELSE IF c = "beta" THEN BrandingOf("Beta Brief")
                     ELSE NoBranding]

SpecLive == InitLive /\ [][NextLive]_vars

(***************************************************************************)
(* Vocabulary of the access claims                                         *)
(***************************************************************************)
\* the table of the tiers as the specification gives it
RowOfTier(tier) ==
    CASE tier = "premium" -> <<"view", "edit", "generate", "manage_config", "edit_config">>
      [] tier = "standard" -> <<"view", "generate">>
      [] tier = "basic" -> <<"view">>
      [] OTHER -> <<"view">>

\* the positions of the records of a tenant's user list that carry the e-mail
RecordsFor(email, c) ==
    {i \in 1..Len(user_access[c].users) :
        Lower(user_access[c].users[i].email) = Lower(email)}

\* what a check of a capability against a permission list has to answer
Grants(permissions, permission_name) ==
    IF permission_name = "view" THEN permissions # <<>>
    ELSE permission_name \in Range(permissions)

\* the tenants that list the e-mail
Listing(email) ==
    {c \in customer_dirs : user_access[c].exists /\ RecordsFor(email, c) # {}}

\* the login form called authenticate_user
AuthenticateCalled == ret.op = "login" /\ ret.error # MsgEnterBoth

\* the records listed for the e-mail of the login, in the order in which
\* authenticate_user looks at them, and the first one with the password
LoginRecords == get_user_newsletters(ret.email)

WithPassword ==
    {i \in 1..Len(LoginRecords) : LoginRecords[i].password = ret.password}

MatchedRecord ==
    LoginRecords[CHOOSE i \in WithPassword : \A j \in WithPassword : i <= j]

\* the text reads, in some one of the three formats, as a date before today
ReadsAsPastDate(t) ==
    \E i \in 1..Len(date_formats) :
       /\ strptime(t, date_formats[i]) # NoDate
       /\ DateBefore(strptime(t, date_formats[i]), Today)

\* the date the text denotes: the reading of the first of the formats
\* d/m/Y, Y-m-d, m/d/Y that accepts it
AcceptingFormats(t) ==
    {i \in 1..Len(date_formats) : strptime(t, date_formats[i]) # NoDate}

DateOf(t) ==
    IF AcceptingFormats(t) = {} THEN NoDate
    ELSE strptime(t, date_formats[CHOOSE i \in AcceptingFormats(t) :
                                     \A j \in AcceptingFormats(t) : i <= j])

\* the position of a tenant in the scan of the customers folder
ScanPlace(c) == CHOOSE i \in 1..Len(ScanOrder) : ScanOrder[i] = c

C7_Authenticate ==
    /\ Cardinality({MsgInvalid, MsgInactive, MsgExpired, ""}) = 4
    /\ AuthenticateCalled =>
          IF Listing(ret.email) = {} \/ WithPassword = {}
          THEN ~ret.ok /\ ret.error = MsgInvalid /\ ret.user = <<>>
          ELSE IF MatchedRecord.status # "Active"
          THEN ~ret.ok /\ ret.error = MsgInactive /\ ret.user = <<>>
          ELSE IF ReadsAsPastDate(MatchedRecord.valid_until)
          THEN ~ret.ok /\ ret.error = MsgExpired /\ ret.user = <<>>
          ELSE ret.ok /\ ret.error = "" /\ ret.user = <<MatchedRecord>>
    /\ ret.op = "login" => authenticated = ret.ok

\* a wrong password for an account that is inactive and expired
C7_Witness ==
    /\ AuthenticateCalled /\ ret.error = MsgInvalid
    /\ Listing(ret.email) # {}
    /\ \A c \in Listing(ret.email) : \A i \in RecordsFor(ret.email, c) :
          /\ user_access[c].users[i].status = "Inactive"
          /\ user_access[c].users[i].valid_until = PastText
          /\ user_access[c].users[i].password # ret.password

(***************************************************************************)
(* C8 (as stated): authenticate rejects as expired exactly when            *)
(* valid_until is set and reads, in one of the three formats, as a date    *)
(* before today.                                                           *)
(***************************************************************************)
C8_AsStated ==
    AuthenticateCalled /\ WithPassword # {} /\ MatchedRecord.status = "Active" =>
       (ret.error = MsgExpired <=> ReadsAsPastDate(MatchedRecord.valid_until))

(***************************************************************************)
(* C8: authenticate rejects as expired exactly when valid_until is set and *)
(* the first of the formats d/m/Y, Y-m-d, m/d/Y that accepts it reads it   *)
(* as a date strictly before today; a valid_until equal to today, an empty *)
(* one, or one that no format accepts never causes a rejection.            *)
(***************************************************************************)
C8_Expiry ==
    AuthenticateCalled /\ WithPassword # {} /\ MatchedRecord.status = "Active" =>
       LET t == MatchedRecord.valid_until
       IN /\ ret.error = MsgExpired <=>
                (DateOf(t) # NoDate /\ DateBefore(DateOf(t), Today))
          /\ DateOf(t) = NoDate \/ DateOf(t) = Today => ret.ok
          /\ ret.ok \/ ret.error = MsgExpired

\* "03/04/2025" on 20 March 2025: 3 April by d/m/Y, the login succeeds
C8_Witness ==
    /\ AuthenticateCalled /\ ret.ok
    /\ ret.user[1].valid_until = DateText(3, "/", 4, 2025)

StoredPermissions(email, c) ==
    IF c = "" \/ RecordsFor(email, c) = {} THEN <<>>
    ELSE user_access[c].users[CHOOSE i \in RecordsFor(email, c) : TRUE].permissions

C10_NoStalePermission ==
    /\ ret.op = "has_permission" =>
          ret.result = Grants(StoredPermissions(ret.email, ret.customer_id),
                              ret.permission_name)
    /\ ret.op = "render" /\ ret.page = "main" =>
          /\ ret.has_edit_config =
                Grants(StoredPermissions(user_email, current_customer_id), "edit_config")
          /\ ret.can_generate =
                Grants(StoredPermissions(user_email, current_customer_id), "generate")
    /\ ret.op = "render" /\ ret.page = "none" => Listing(user_email) = {}

\* the page is rendered with a generate check that differs from the one the
\* previous render of the same tenant stored in the session
C10_Witness ==
    /\ ret.op = "render" /\ ret.page = "main"
    /\ \E i \in 1..Len(ret.cached) :
          /\ ret.cached[i].customer_id = current_customer_id
          /\ ("generate" \in Range(ret.cached[i].permissions)) # ret.can_generate

(***************************************************************************)
(* The article dashboard: the filters, the selection set and newsletter    *)
(* generation (user_modules/article_dashboard.py, render_dashboard of      *)
(* streamlit_user_app.py, user_modules/newsletter_generator.py)            *)
(***************************************************************************)
\* the day of published_date, published_date.strftime("%Y-%m-%d")
PublishedDay(a) == a.published_datetime \div HoursPerDay

\* in_range(a) of display_articles, for the dates of the two date inputs
in_range(a, start_date, end_date) ==
    start_date <= PublishedDay(a) /\ PublishedDay(a) <= end_date

\* the values of the filter widgets: the keywords of the multiselect and
\* the dates of "From" and "To"
FilterView(selected_keywords, start_date, end_date) ==
    [selected_keywords |-> selected_keywords, start_date |-> start_date,
     end_date |-> end_date]

\* "Apply filters": the date range, then the keyword dropdown
FilteredArticles(articles, view) ==
    LET selected_set == {Lower(k) : k \in view.selected_keywords}
        dated == SelectSeq(articles,
                     LAMBDA a : in_range(a, view.start_date, view.end_date))
    IN IF view.selected_keywords = {} THEN dated
       ELSE SelectSeq(dated, LAMBDA a : /\ a.category # ""
                                       /\ Lower(a.category) \in selected_set)

\* the filter values the widgets offer for a list of articles
FilterViews(articles) ==
    LET keyword_options == {articles[i].category : i \in 1..Len(articles)} \ {""}
        dates == {PublishedDay(articles[i]) : i \in 1..Len(articles)}
    IN {FilterView(k, r[1], r[2]) :
           k \in SUBSET keyword_options,
           r \in {p \in dates \X dates : p[1] <= p[2]}}

IdsOf(articles) == {articles[i].article_id : i \in 1..Len(articles)}

\* a variant: "Select All" that replaces the selection by the visible ids
SelectAllReplacing(selection, filtered_articles) == IdsOf(filtered_articles)

\* "Select All": for article in filtered_articles: selected_article_ids.add(id)
SelectAllVisible(selection, filtered_articles) ==
    selection \cup IdsOf(filtered_articles)

\* a variant: a checkbox that flips the membership whatever it reports
ToggleFlip(selection, article_id, selected) ==
    IF article_id \in selection THEN selection \ {article_id}
    ELSE selection \cup {article_id}

\* "Update session state if checkbox state changed": add or discard
ToggleSelection(selection, article_id, selected) ==
    IF selected # (article_id \in selection)
    THEN IF selected THEN selection \cup {article_id}
         ELSE selection \ {article_id}
    ELSE selection

\* list(st.session_state.selected_article_ids): the iteration order of a set
\* of strings is whatever the hash seed of the process makes it
Orderings(S) ==
    {s \in [1..Cardinality(S) -> S] : \A x \in S : \E i \in DOMAIN s : s[i] = x}

\* article_dict = {a.get('article_id'): a for a in articles}: the last
\* article of an id is the one kept
ArticleDict(articles, aid) ==
    LET at == {i \in 1..Len(articles) : articles[i].article_id = aid}
    IN articles[CHOOSE i \in at : \A j \in at : j <= i]

\* select_articles(article_ids, articles)
RECURSIVE select_articles(_, _)
select_articles(article_ids, articles) ==
    IF article_ids = <<>> THEN <<>>
    ELSE (IF Head(article_ids) \in IdsOf(articles)
          THEN <<ArticleDict(articles, Head(article_ids))>> ELSE <<>>)
         \o select_articles(Tail(article_ids), articles)

\* the article block format_html_newsletter writes for one article
ArticleEntry(a) == [article_url |-> a.url, article_date |-> PublishedDay(a)]

\* format_html_newsletter: "Add articles", one block per article, in the
\* order of the list
RECURSIVE format_html_newsletter(_)
format_html_newsletter(articles) ==
    IF articles = <<>> THEN <<>>
    ELSE <<ArticleEntry(Head(articles))>> \o format_html_newsletter(Tail(articles))

MsgSelectOne == "Please select at least one article to generate a newsletter."
MsgNoRetrieve == "Failed to retrieve selected articles."
MsgNoSave == "Failed to save newsletter to GitHub"
MsgNoPermission == "You don't have permission to generate newsletters. Standard or Premium tier required."
MsgGenerated == "Newsletter generated and saved"

\* the company select box shows one of the names of the list; the company
\* it stands for is the first of the list with that name
SelectableCustomers(newsletters) ==
    {newsletters[i].customer_id : i \in
        {k \in 1..Len(newsletters) :
            \A j \in 1..(k - 1) : newsletters[j].name # newsletters[k].name}}

\* a variant: the run reaches render_dashboard whatever the select box shows
OnDashboardAnyCompany ==
    /\ authenticated
    /\ current_customer_id # ""
    /\ branding' \in BrandingAfterLoad(user_email)
    /\ LET newsletters == RenderNewsletters(user_email)
       IN /\ newsletters # <<>>
          /\ user_newsletters' = newsletters
    /\ config_cache' = ConfigAfterLoad(current_customer_id)
    /\ UNCHANGED <<customer_dirs, user_access, authenticated, user_email,
                   current_customer_id, session_valid_until, envVars, pc,
                   google_out, rss_out, background_out>>

\* the session and datastore effects of a run of main() that reaches
\* render_dashboard for the current company without switching it: the
\* company of the select box is the current one
OnDashboard ==
    /\ authenticated
    /\ current_customer_id # ""
    /\ branding' \in BrandingAfterLoad(user_email)
    /\ LET newsletters == RenderNewsletters(user_email)
       IN /\ newsletters # <<>>
          /\ current_customer_id \in SelectableCustomers(newsletters)
          /\ user_newsletters' = newsletters
    /\ config_cache' = ConfigAfterLoad(current_customer_id)
    /\ UNCHANGED <<customer_dirs, user_access, authenticated, user_email,
                   current_customer_id, session_valid_until, envVars, pc,
                   google_out, rss_out, background_out>>

\* a variant: the permissions the session stored at an earlier run
CachedPermissions ==
    LET at == {i \in 1..Len(user_newsletters) :
                  user_newsletters[i].customer_id = current_customer_id}
    IN IF at = {} THEN <<>>
       ELSE user_newsletters[CHOOSE i \in at : \A j \in at : i <= j].permissions

\* current_newsletter: the user's record of the current company, if any
CurrentPermissions ==
    LET newsletters == RenderNewsletters(user_email)
        at == {i \in 1..Len(newsletters) :
                  newsletters[i].customer_id = current_customer_id}
    IN IF at = {} THEN <<>>
       ELSE newsletters[CHOOSE i \in at : \A j \in at : i <= j].permissions

\* the "Find News" button on the dashboard of a logged-in user
FindNews ==
    /\ OnDashboard
    /\ IF keywords = <<>> /\ feed_urls = <<>>
       THEN found_articles' = found_articles
       ELSE found_articles' = DashboardDiscover(keywords, feed_urls, time_period)
    /\ is_finding_news' = FALSE
    /\ ret' = [op |-> "find_news", before |-> selected_article_ids,
               started |-> ~(keywords = <<>> /\ feed_urls = <<>>)]
    /\ UNCHANGED dashboardVars

\* the "Select All" button, with the filters set to view
SelectAll(view) ==
    /\ OnDashboard
    /\ found_articles # <<>>
    /\ view \in FilterViews(found_articles)
    /\ LET filtered_articles == FilteredArticles(found_articles, view)
       IN /\ selected_article_ids' =
                 SelectAllVisible(selected_article_ids, filtered_articles)
          /\ ret' = [op |-> "select_all", before |-> selected_article_ids,
                     view |-> view]
    /\ UNCHANGED <<found_articles, is_finding_news, newsletter_files,
                   session_state, writers, configVars, runVars>>

\* the "Clear Selection" button
ClearSelection ==
    /\ OnDashboard
    /\ found_articles # <<>>
    /\ selected_article_ids' = {}
    /\ ret' = [op |-> "clear_selection", before |-> selected_article_ids]
    /\ UNCHANGED <<found_articles, is_finding_news, newsletter_files,
                   session_state, writers, configVars, runVars>>

\* a run in which the checkbox of the idx-th visible article reports selected
ToggleCheckbox(view, idx, selected) ==
    /\ OnDashboard
    /\ found_articles # <<>>
    /\ view \in FilterViews(found_articles)
    /\ LET filtered_articles == FilteredArticles(found_articles, view)
       IN /\ idx \in 1..Len(filtered_articles)
          /\ selected_article_ids' =
                 ToggleSelection(selected_article_ids,
                                 filtered_articles[idx].article_id, selected)
          /\ ret' = [op |-> "toggle", before |-> selected_article_ids,
                     article_id |-> filtered_articles[idx].article_id,
                     selected |-> selected]
    /\ UNCHANGED <<found_articles, is_finding_news, newsletter_files,
                   session_state, writers, configVars, runVars>>

\* a run that only renders the dashboard again with other filter values
Rerender(view) ==
    /\ OnDashboard
    /\ found_articles # <<>>
    /\ view \in FilterViews(found_articles)
    /\ ret' = [op |-> "rerender", before |-> selected_article_ids,
               view |-> view]
    /\ UNCHANGED <<found_articles, is_finding_news, dashboardVars>>

GenerateRet(message, saved, selected_articles, permissions) ==
    [op |-> "generate", message |-> message, saved |-> saved,
     customer_id |-> current_customer_id, before |-> selected_article_ids,
     selected_articles |-> selected_articles, permissions |-> permissions,
     application_name |-> config_cache'.application_name]

\* the "Generate Newsletter" section: article_ids is the list made of the
\* selection set, save_ok whether save_newsletter succeeds; the document is
\* rendered with the branding of the customer_config of this run of main()
Generate(article_ids, save_ok) ==
    /\ OnDashboard
    /\ LET permissions == CurrentPermissions
           can_generate == "generate" \in Range(permissions)
           selected_articles == select_articles(article_ids, found_articles)
           saved == /\ can_generate
                    /\ selected_article_ids # {}
                    /\ selected_articles # <<>>
                    /\ save_ok
           message == IF ~can_generate THEN MsgNoPermission
                      ELSE IF selected_article_ids = {} THEN MsgSelectOne
                      ELSE IF selected_articles = <<>> THEN MsgNoRetrieve
                      ELSE IF ~save_ok THEN MsgNoSave
                      ELSE MsgGenerated
       IN /\ newsletter_files' =
                 IF saved
                 THEN [newsletter_files EXCEPT ![current_customer_id] =
                          [exists |-> TRUE,
                           articles |-> format_html_newsletter(selected_articles)]]
                 ELSE newsletter_files
          /\ selected_article_ids' = IF saved THEN {} ELSE selected_article_ids
          /\ ret' = GenerateRet(message, saved, selected_articles, permissions)
    /\ UNCHANGED <<found_articles, is_finding_news, session_state, writers,
                   configVars, runVars>>

\* the click on "Generate Newsletter" with the selection in any order
GenerateClick ==
    \E article_ids \in Orderings(selected_article_ids), save_ok \in BOOLEAN :
       Generate(article_ids, save_ok)

(***************************************************************************)
(* Specification of the dashboard: one tenant, one user, a provider and a  *)
(* feed whose content changes between discovery runs                       *)
(***************************************************************************)
Entry(link, age) == [link |-> link, kind |-> "parsed", t |-> Now0 - age]

\* what Feed1 holds
FeedResponses == {<<>>, <<Entry(UrlC1, 24)>>}

\* between two runs the feed publishes something else
NewsArrives ==
    /\ \E r \in FeedResponses :
          rresp' = [rresp EXCEPT ![Feed1] = Response(TRUE, FeedTitle(Feed1), r)]
    /\ ret' = [op |-> "news_arrives"]
    /\ UNCHANGED <<keywords, feed_urls, time_period, gresp, now, pc, google_out,
                   rss_out, background_out, found_articles, is_finding_news,
                   dashboardVars, storeVars, sessionVars>>

\* the selection controls of the dashboard
NextSelection ==
    \/ Login("a@x.com", "changeme123")
    \/ Render("Acme News")
    \/ Logout
    \/ FindNews
    \/ \E view \in FilterViews(found_articles) : SelectAll(view)
    \/ ClearSelection
    \/ \E view \in FilterViews(found_articles), idx \in 1..Len(found_articles),
          selected \in BOOLEAN : ToggleCheckbox(view, idx, selected)
    \/ \E view \in FilterViews(found_articles) : Rerender(view)

\* discovery, selection and generation while the feed and the user's tier
\* change
NextGenerate ==
    \/ Login("a@x.com", "changeme123")
    \/ Render("Acme News")
    \/ NewsArrives
    \/ FindNews
    \/ \E view \in FilterViews(found_articles) : SelectAll(view)
    \/ \E view \in FilterViews(found_articles) : Rerender(view)
    \/ GenerateClick
    \/ \E t \in {"Standard", "Basic"} :
          update_user_tier("acme", "a@x.com", t, [read_ok |-> TRUE, write_ok |-> TRUE])

InitDashboard ==
    /\ now = Now0
    /\ keywords = <<KW1>>
    /\ feed_urls = <<Feed1>>
    /\ time_period = "Last 7 days"
    /\ gresp = (KW1 :> Response(TRUE, "", <<Entry(UrlB, 24), Entry(UrlA, 0)>>)) @@
               (KW2 :> Response(TRUE, "", <<>>))
    /\ rresp = (Feed1 :> Response(TRUE, FeedTitle(Feed1), <<Entry(UrlC1, 24)>>)) @@
               (Feed2 :> Response(TRUE, FeedTitle(Feed2), <<>>))
    /\ pc = "ready"
    /\ google_out = <<>>
    /\ rss_out = <<>>
    /\ background_out = <<>>
    /\ found_articles = <<>>
    /\ is_finding_news = FALSE
    /\ DashboardIdle
    /\ FreshSession
    /\ customer_dirs = {"acme"}
    /\ user_access = [c \in CustomerIds |->
                        IF c = "acme"
                        THEN FileOf(<<NewUser("a@x.com", "changeme123", "Standard",
                                              "editor", EmptyText)>>)
                        ELSE NoUserAccess]
    /\ branding = [c \in CustomerIds |->
                     IF c = "acme" THEN BrandingOf("Acme News") ELSE NoBranding]

SpecSelection == InitDashboard /\ [][NextSelection]_vars

SpecGenerate == InitDashboard /\ [][NextGenerate]_vars

(***************************************************************************)
(* Vocabulary of the dashboard claims                                      *)
(***************************************************************************)
\* the ids of the articles of the pool that pass the filters of a view
VisibleIds(view) ==
    {found_articles[i].article_id : i \in
        {k \in 1..Len(found_articles) :
            /\ view.start_date <= found_articles[k].published_datetime \div HoursPerDay
            /\ found_articles[k].published_datetime \div HoursPerDay <= view.end_date
            /\ \/ view.selected_keywords = {}
               \/ found_articles[k].category \in view.selected_keywords}}

(***************************************************************************)
(* C11  "Select All" changes the selection set to the previous selection   *)
(* united with the ids of the currently visible (filtered) articles:       *)
(* every id that was selected before and is outside the current filter     *)
(* view is still selected afterwards.                                      *)
(***************************************************************************)
C11_SelectAllAdds ==
    ret.op = "select_all" =>
        /\ selected_article_ids = ret.before \cup VisibleIds(ret.view)
        /\ \A id \in ret.before \ VisibleIds(ret.view) : id \in selected_article_ids

\* selection {a, b} with visible {b, c}: a is filtered out, c is new
C11_Witness ==
    /\ ret.op = "select_all"
    /\ ret.before \ VisibleIds(ret.view) # {}
    /\ VisibleIds(ret.view) \ ret.before # {}
    /\ ret.before \cap VisibleIds(ret.view) # {}
    /\ Cardinality(selected_article_ids) = 3

(***************************************************************************)
(* C12  Toggling an article's selection is idempotent: marking an id as    *)
(* included gives the previous set with the id added, so marking it twice  *)
(* gives the same set as marking it once; marking an id as excluded when   *)
(* it is not in the set leaves the set unchanged; no toggle of one id      *)
(* changes the membership of any other id.                                 *)
(***************************************************************************)
ToggleOutcome ==
    ret.op = "toggle" =>
        /\ ret.selected => selected_article_ids = ret.before \cup {ret.article_id}
        /\ ~ret.selected => selected_article_ids = ret.before \ {ret.article_id}
        /\ (~ret.selected /\ ret.article_id \notin ret.before)
              => selected_article_ids = ret.before
        /\ \A id \in IdsOf(found_articles) \cup ret.before :
              id # ret.article_id =>
                 (id \in selected_article_ids <=> id \in ret.before)

MarkedTwice ==
    (/\ ret.op = "toggle" /\ ret.selected
     /\ ret'.op = "toggle" /\ ret'.selected
     /\ ret'.article_id = ret.article_id)
        => selected_article_ids' = selected_article_ids

C12_ToggleIdempotent == [](ToggleOutcome) /\ [][MarkedTwice]_vars

\* an id that is already selected, among others, is marked as included again
C12_Witness ==
    /\ ret.op = "toggle"
    /\ ret.selected
    /\ ret.article_id \in ret.before
    /\ ret.before # {ret.article_id}
    /\ selected_article_ids = ret.before

(***************************************************************************)
(* C13  The selection set is empty immediately after a new discovery run   *)
(* starts and immediately after a newsletter publication succeeds;         *)
(* between those events it is preserved across re-renders and filter       *)
(* changes.                                                                *)
(***************************************************************************)
C13_SelectionCleared ==
    /\ (ret.op = "find_news" /\ ret.started) => selected_article_ids = {}
    /\ (ret.op = "generate" /\ ret.saved) => selected_article_ids = {}
    /\ ret.op = "rerender" => selected_article_ids = ret.before

(***************************************************************************)
(* C14  The articles passed to newsletter generation, and therefore the    *)
(* article entries of the generated document, are in published_datetime    *)
(* descending order, for every selection set and whatever order the ids    *)
(* were selected in.                                                       *)
(***************************************************************************)
NewestFirst(list) ==
    \A i, j \in 1..Len(list) :
        i < j => list[i].published_datetime >= list[j].published_datetime

C14_GeneratedOrder ==
    (ret.op = "generate" /\ ret.saved) =>
        /\ NewestFirst(ret.selected_articles)
        /\ LET document == newsletter_files[ret.customer_id].articles
           IN /\ Len(document) = Len(ret.selected_articles)
              /\ \A i \in 1..Len(document) :
                    document[i].article_url = ret.selected_articles[i].url

(***************************************************************************)
(* C15  A newsletter document is saved for a tenant only if, at that       *)
(* moment, the user's permission list for that tenant contains generate    *)
(* and at least one selected id resolves to an article of the current      *)
(* pool; an attempt to generate with zero selected articles yields a       *)
(* user-visible validation message and saves nothing.                      *)
(***************************************************************************)
SavedOnlyWhenAllowed ==
    (ret.op = "generate" /\ ret.saved) =>
        /\ "generate" \in Range(StoredPermissions(user_email, ret.customer_id))
        /\ \E id \in ret.before : id \in IdsOf(found_articles)
        /\ newsletter_files[ret.customer_id].exists

NothingSelected ==
    (ret.op = "generate" /\ ret.before = {}) =>
        /\ ~ret.saved
        /\ ret.message \in {MsgSelectOne, MsgNoPermission}

SavedOnlyByGenerate ==
    newsletter_files' # newsletter_files =>
        /\ ret'.op = "generate" /\ ret'.saved
        /\ \A c \in CustomerIds :
              c # ret'.customer_id => newsletter_files'[c] = newsletter_files[c]

NotSavedKeepsFiles ==
    (ret'.op = "generate" /\ ~ret'.saved) => newsletter_files' = newsletter_files

C15_GenerateGuarded ==
    /\ [](SavedOnlyWhenAllowed /\ NothingSelected)
    /\ [][SavedOnlyByGenerate /\ NotSavedKeepsFiles]_vars

\* a document is saved although one of the selected ids is no longer in the
\* pool
C15_Witness ==
    /\ ret.op = "generate"
    /\ ret.saved
    /\ ret.before \ IdsOf(found_articles) # {}
    /\ newsletter_files[ret.customer_id].articles # <<>>

(***************************************************************************)
(* Two browser sessions of the user app.  Every key the app keeps lives in *)
(* st.session_state, which Streamlit holds once per browser session; the   *)
(* tenant datastore and the feeds are shared by the sessions.              *)
(***************************************************************************)
\* a variant: one dictionary at module level that every session uses
SharedSlot(s) == "s1"

\* the dictionary st.session_state stands for in a run of session s
SessionSlot(s) == s

SessionGet(s) == session_state[SessionSlot(s)]

SessionPut(s, state) ==
    session_state' = [session_state EXCEPT ![SessionSlot(s)] = state]

SessionRet(op, s) == [op |-> op, session |-> s]

\* what a run of main() in a session leaves alone outside st.session_state
SessionFrame ==
    UNCHANGED <<customer_dirs, user_access, sessionVars, envVars, pc,
                google_out, rss_out, background_out, found_articles,
                is_finding_news, selected_article_ids, writers, configVars, runVars>>

\* the login form
SessionLogin(s, email, password) ==
    /\ ~SessionGet(s).authenticated
    /\ LET r == IF email # "" /\ password # ""
                THEN authenticate_user(email, password)
                ELSE AuthResult(FALSE, MsgEnterBoth, <<>>)
       IN SessionPut(s, [SessionGet(s) EXCEPT
                            !.authenticated = r.ok,
                            !.user_email = IF r.ok THEN email ELSE @])
    /\ branding' \in BrandingAfterLoad(IF password # "" THEN email ELSE "")
    /\ ret' = SessionRet("login", s)
    /\ SessionFrame
    /\ UNCHANGED newsletter_files

\* the newsletters of the session's user, scanned at the start of the run
SessionNewsletters(s) == RenderNewsletters(SessionGet(s).user_email)

\* the company select box is set to selected_name
SessionSwitch(s, selected_name) ==
    /\ SessionGet(s).authenticated
    /\ LET newsletters == SessionNewsletters(s)
           named == {i \in 1..Len(newsletters) : newsletters[i].name = selected_name}
       IN /\ named # {}
          /\ LET first == CHOOSE i \in named : \A j \in named : i <= j
             IN /\ newsletters[first].customer_id # SessionGet(s).current_customer_id
                /\ SessionPut(s, [SessionGet(s) EXCEPT !.current_customer_id =
                                     newsletters[first].customer_id])
    /\ branding' \in BrandingAfterLoad(SessionGet(s).user_email)
    /\ ret' = SessionRet("switch", s)
    /\ SessionFrame
    /\ UNCHANGED newsletter_files

\* a run that reaches render_dashboard in session s
SessionOnDashboard(s) ==
    /\ SessionGet(s).authenticated
    /\ SessionGet(s).current_customer_id # ""
    /\ SessionNewsletters(s) # <<>>
    /\ branding' \in BrandingAfterLoad(SessionGet(s).user_email)
    /\ SessionFrame

SessionFindNews(s) ==
    /\ SessionOnDashboard(s)
    /\ SessionPut(s, [SessionGet(s) EXCEPT !.found_articles =
                         IF keywords = <<>> /\ feed_urls = <<>> THEN @
                         ELSE DashboardDiscover(keywords, feed_urls, time_period)])
    /\ ret' = SessionRet("find_news", s)
    /\ UNCHANGED newsletter_files

SessionSelectAll(s, view) ==
    /\ SessionOnDashboard(s)
    /\ SessionGet(s).found_articles # <<>>
    /\ view \in FilterViews(SessionGet(s).found_articles)
    /\ SessionPut(s, [SessionGet(s) EXCEPT !.selected_article_ids =
                         SelectAllVisible(@, FilteredArticles(SessionGet(s).found_articles,
                                                              view))])
    /\ ret' = SessionRet("select_all", s)
    /\ UNCHANGED newsletter_files

SessionClear(s) ==
    /\ SessionOnDashboard(s)
    /\ SessionGet(s).found_articles # <<>>
    /\ SessionPut(s, [SessionGet(s) EXCEPT !.selected_article_ids = {}])
    /\ ret' = SessionRet("clear_selection", s)
    /\ UNCHANGED newsletter_files

SessionToggle(s, idx, selected) ==
    /\ SessionOnDashboard(s)
    /\ idx \in 1..Len(SessionGet(s).found_articles)
    /\ SessionPut(s, [SessionGet(s) EXCEPT !.selected_article_ids =
                         ToggleSelection(@, SessionGet(s).found_articles[idx].article_id,
                                         selected)])
    /\ ret' = SessionRet("toggle", s)
    /\ UNCHANGED newsletter_files

\* "Generate Newsletter" in session s
SessionPublish(s, article_ids, save_ok) ==
    /\ SessionOnDashboard(s)
    /\ LET state == SessionGet(s)
           newsletters == SessionNewsletters(s)
           at == {i \in 1..Len(newsletters) :
                     newsletters[i].customer_id = state.current_customer_id}
           can_generate == /\ at # {}
                           /\ "generate" \in
                                 Range(newsletters[CHOOSE i \in at : TRUE].permissions)
           selected_articles == select_articles(article_ids, state.found_articles)
           saved == /\ can_generate
                    /\ selected_articles # <<>>
                    /\ save_ok
       IN /\ newsletter_files' =
                 IF saved
                 THEN [newsletter_files EXCEPT ![state.current_customer_id] =
                          [exists |-> TRUE,
                           articles |-> format_html_newsletter(selected_articles)]]
                 ELSE newsletter_files
          /\ SessionPut(s, [state EXCEPT !.selected_article_ids =
                                IF saved THEN {} ELSE @])
          /\ ret' = SessionRet(IF saved THEN "publish" ELSE "publish_failed", s)

SessionLogout(s) ==
    /\ SessionGet(s).authenticated
    /\ SessionPut(s, FreshSessionState)
    /\ ret' = SessionRet("logout", s)
    /\ SessionFrame
    /\ UNCHANGED <<branding, newsletter_files>>

NextSessions ==
    \E s \in SessionIds :
       \/ SessionLogin(s, "a@x.com", "changeme123")
       \/ \E n \in {"Acme News", "Beta Brief"} : SessionSwitch(s, n)
       \/ SessionFindNews(s)
       \/ \E view \in FilterViews(SessionGet(s).found_articles) : SessionSelectAll(s, view)
       \/ SessionClear(s)
       \/ \E idx \in 1..Len(SessionGet(s).found_articles), selected \in BOOLEAN :
             SessionToggle(s, idx, selected)
       \/ \E article_ids \in Orderings(SessionGet(s).selected_article_ids),
             save_ok \in BOOLEAN : SessionPublish(s, article_ids, save_ok)
       \/ SessionLogout(s)

\* two tenants; a@x.com belongs to both and may generate in one
InitSessions ==
    /\ now = Now0
    /\ keywords = <<KW1>>
    /\ feed_urls = <<>>
    /\ time_period = "Last 7 days"
    /\ gresp = (KW1 :> Response(TRUE, "", <<Entry(UrlB, 24), Entry(UrlA, 0)>>)) @@
               (KW2 :> Response(TRUE, "", <<>>))
    /\ rresp = (Feed1 :> Response(TRUE, FeedTitle(Feed1), <<>>)) @@
               (Feed2 :> Response(TRUE, FeedTitle(Feed2), <<>>))
    /\ pc = "ready"
    /\ google_out = <<>>
    /\ rss_out = <<>>
    /\ background_out = <<>>
    /\ found_articles = <<>>
    /\ is_finding_news = FALSE
    /\ DashboardIdle
    /\ FreshSession
    /\ customer_dirs = {"acme", "beta"}
    /\ user_access = [c \in CustomerIds |->
                        IF c = "acme"
                        THEN FileOf(<<NewUser("a@x.com", "changeme123", "Standard",
                                              "editor", EmptyText)>>)
                        ELSE IF c = "beta"
                        THEN FileOf(<<NewUser("a@x.com", "changeme123", "Basic",
                                              "viewer", EmptyText)>>)
                        ELSE NoUserAccess]
    /\ branding = [c \in CustomerIds |->
                     IF c = "acme" THEN BrandingOf("Acme News")
                     ELSE IF c = "beta" THEN BrandingOf("Beta Brief")
                     ELSE NoBranding]

SpecSessions == InitSessions /\ [][NextSessions]_vars

(***************************************************************************)
(* C16  With two user sessions interleaved in any order, no operation in   *)
(* one session (login, tenant switch, discovery, toggle, select all,       *)
(* clear, publish, logout) changes the other session's selection set,      *)
(* discovery results or current tenant.                                    *)
(***************************************************************************)
SessionOps ==
    {"login", "switch", "find_news", "toggle", "select_all", "clear_selection",
     "publish", "publish_failed", "logout"}

OtherSessionsUntouched ==
    ret'.op \in SessionOps =>
        \A s \in SessionIds \ {ret'.session} :
            /\ session_state'[s].selected_article_ids =
                  session_state[s].selected_article_ids
            /\ session_state'[s].found_articles = session_state[s].found_articles
            /\ session_state'[s].current_customer_id =
                  session_state[s].current_customer_id

C16_SessionsIsolated == [][OtherSessionsUntouched]_vars

\* s1 has just logged out while s2 works on another tenant with articles
\* found and selected
C16_Witness ==
    /\ ret.op = "logout"
    /\ ret.session = "s1"
    /\ session_state["s1"] = FreshSessionState
    /\ session_state["s2"].current_customer_id = "beta"
    /\ session_state["s2"].found_articles # <<>>
    /\ session_state["s2"].selected_article_ids # {}

(***************************************************************************)
(* Concurrent writers of one tenant file.  Every writer loads the file     *)
(* (get_user_access, load_user_access, load_config), changes its copy in   *)
(* memory and saves it with two requests: repo.get_contents for the sha of *)
(* the stored file, then repo.update_file(path, message, content, sha).    *)
(* The repository accepts an update only when the sha is the one of the    *)
(* file it holds at that moment; the sha is a digest of the content.       *)
(***************************************************************************)
\* len(password) of the passwords of the model
PasswordLen(p) ==
    CASE p = "" -> 0
      [] p = "abc" -> 3
      [] p = "newpass456" -> 10
      [] p = "changeme123" -> 11

EditResult(ok, message, content) == [ok |-> ok, message |-> message, content |-> content]

\* update_user_tier up to the call of update_user_access
TierEdit(file, email, new_tier) ==
    LET users == file.users
        i == MatchIndex(users, email)
    IN IF i = 0 THEN EditResult(FALSE, "User not found", file)
       ELSE EditResult(TRUE, "",
                [exists |-> TRUE,
                 users |-> [users EXCEPT ![i].tier = Lower(new_tier),
                                         ![i].permissions = PermissionsForTier(new_tier)]])

\* add_user_access up to the call of update_user_access
AddEdit(file, email, tier, role, password) ==
    LET normalized == Lower(Strip(email))
        users == file.users
    IN IF ~validate_email(email) THEN EditResult(FALSE, "Invalid email", file)
       ELSE IF MatchIndex(users, normalized) # 0
       THEN EditResult(FALSE, "User already exists", file)
       ELSE EditResult(TRUE, "",
                [exists |-> TRUE,
                 users |-> Append(users, NewUser(normalized, password, tier,
                                                 Lower(role), EmptyText))])

\* change_password up to the call of save_user_access
PasswordEdit(file, email, old_password, new_password, confirm_password) ==
    LET users == file.users
        i == MatchIndex(users, email)
    IN IF old_password = "" \/ new_password = "" \/ confirm_password = ""
       THEN EditResult(FALSE, "All password fields are required.", file)
       ELSE IF i = 0 THEN EditResult(FALSE, "User not found.", file)
       ELSE IF users[i].password # old_password
       THEN EditResult(FALSE, "Current password is incorrect.", file)
       ELSE IF new_password # confirm_password
       THEN EditResult(FALSE, "New password and confirmation do not match.", file)
       ELSE IF new_password = old_password
       THEN EditResult(FALSE, "New password must be different from current password.", file)
       ELSE IF PasswordLen(new_password) < 6
       THEN EditResult(FALSE, "Password must be at least 6 characters long.", file)
       ELSE EditResult(TRUE, "Password changed successfully!",
                [exists |-> TRUE, users |-> [users EXCEPT ![i].password = new_password]])

\* the branding editor up to the call of save_config_auto
BrandingEdit(file, application_name) ==
    EditResult(TRUE, "", [exists |-> TRUE, application_name |-> application_name])

\* the operations a writer may run on the files of tenant acme
TierOp(email, new_tier) ==
    [kind |-> "update_user_tier", file |-> "user_access", email |-> email,
     arg |-> new_tier]

AddOp(email, tier) ==
    [kind |-> "add_user_access", file |-> "user_access", email |-> email,
     arg |-> tier]

PasswordOp(email, new_password) ==
    [kind |-> "change_password", file |-> "user_access", email |-> email,
     arg |-> new_password]

BrandingOp(application_name) ==
    [kind |-> "save_branding", file |-> "branding", email |-> "",
     arg |-> application_name]

WriterOps ==
    {TierOp("a@x.com", "Premium"), AddOp("b@x.com", "Basic"),
     PasswordOp("a@x.com", "newpass456"), PasswordOp("a@x.com", "abc"),
     BrandingOp("Acme Daily"), BrandingOp("acme news")}

\* the stored file an operation works on
FileContent(file) ==
    IF file = "user_access" THEN user_access["acme"] ELSE branding["acme"]

Edit(op, file) ==
    CASE op.kind = "update_user_tier" -> TierEdit(file, op.email, op.arg)
      [] op.kind = "add_user_access" ->
            AddEdit(file, op.email, op.arg, "viewer", "changeme123")
      [] op.kind = "change_password" ->
            PasswordEdit(file, op.email, "changeme123", op.arg, op.arg)
      [] op.kind = "save_branding" -> BrandingEdit(file, op.arg)

\* a variant: an update that is accepted whatever sha it carries
ShaIgnored(sha, stored) == TRUE

\* repo.update_file(..., file.sha): accepted when the sha is the stored one
ShaMatches(sha, stored) == sha = stored

Puts == Cardinality({w \in WriterIds : writers[w].pc = "done" /\ writers[w].put > 0})

writerFrame ==
    UNCHANGED <<customer_dirs, sessionVars, envVars, pc, google_out, rss_out,
                background_out, found_articles, is_finding_news,
                selected_article_ids, newsletter_files, session_state,
                configVars, runVars>>

\* the operation starts: the file is loaded and the copy is changed
WriterLoad(w, op) ==
    /\ writers[w].pc = "idle"
    /\ LET seen == FileContent(op.file)
           e == Edit(op, seen)
       IN IF e.ok
          THEN /\ writers' = [writers EXCEPT ![w] =
                                 [pc |-> "loaded", op |-> op, seen |-> seen,
                                  content |-> e.content]]
               /\ UNCHANGED ret
          ELSE /\ writers' = [writers EXCEPT ![w] =
                                 [pc |-> "done", op |-> op, seen |-> seen,
                                  content |-> seen, sha |-> seen, put |-> 0,
                                  result |-> FALSE]]
               /\ ret' = [op |-> op.kind, writer |-> w, result |-> FALSE]
    /\ UNCHANGED <<user_access, branding>>
    /\ writerFrame

\* file = repo.get_contents(path)
WriterGetContents(w) ==
    /\ writers[w].pc = "loaded"
    /\ writers' = [writers EXCEPT ![w] =
                      [pc |-> "has_sha", op |-> @.op, seen |-> @.seen,
                       content |-> @.content,
                       sha |-> FileContent(writers[w].op.file)]]
    /\ UNCHANGED <<user_access, branding, ret>>
    /\ writerFrame

\* repo.update_file(path, message, content, file.sha) and the return
WriterPut(w) ==
    /\ writers[w].pc = "has_sha"
    /\ LET me == writers[w]
           accepted == ShaMatches(me.sha, FileContent(me.op.file))
       IN /\ writers' = [writers EXCEPT ![w] =
                            [pc |-> "done", op |-> me.op, seen |-> me.seen,
                             content |-> me.content, sha |-> me.sha,
                             put |-> Puts + 1, result |-> accepted]]
          /\ user_access' = IF accepted /\ me.op.file = "user_access"
                            THEN [user_access EXCEPT !["acme"] = me.content]
                            ELSE user_access
          /\ branding' = IF accepted /\ me.op.file = "branding"
                         THEN [branding EXCEPT !["acme"] = me.content]
                         ELSE branding
          /\ ret' = [op |-> me.op.kind, writer |-> w, result |-> accepted]
    /\ writerFrame

NextWriters ==
    \E w \in WriterIds :
       \/ \E op \in WriterOps : WriterLoad(w, op)
       \/ WriterGetContents(w)
       \/ WriterPut(w)

InitWriters ==
    /\ DiscoveryIdle
    /\ FreshSession
    /\ customer_dirs = {"acme"}
    /\ user_access = [c \in CustomerIds |->
                        IF c = "acme"
                        THEN FileOf(<<NewUser("a@x.com", "changeme123", "Standard",
                                              "editor", EmptyText)>>)
                        ELSE NoUserAccess]
    /\ branding = [c \in CustomerIds |->
                     IF c = "acme" THEN BrandingOf("Acme News") ELSE NoBranding]

SpecWriters == InitWriters /\ [][NextWriters]_vars

(***************************************************************************)
(* Vocabulary of the claim on concurrent writers                           *)
(***************************************************************************)
\* the writers that have sent their update
Saved == {w \in WriterIds : writers[w].pc = "done" /\ writers[w].put > 0}

\* two writers that loaded the same content of the same file and both saved
LoadedTheSame(v, w) ==
    /\ v # w
    /\ v \in Saved /\ w \in Saved
    /\ writers[v].op.file = writers[w].op.file
    /\ writers[v].seen = writers[w].seen

StoredNow(w) ==
    IF writers[w].op.file = "user_access" THEN user_access["acme"]
    ELSE branding["acme"]

(***************************************************************************)
(* C17 as stated: when two writers each load the same file, modify it and  *)
(* save, in any interleaving neither save is rejected and the stored file  *)
(* equals exactly what the later save wrote.                               *)
(***************************************************************************)
C17_AsStated ==
    \A v, w \in WriterIds :
        (LoadedTheSame(v, w) /\ writers[v].put < writers[w].put) =>
            /\ writers[v].result
            /\ writers[w].result
            /\ StoredNow(w) = writers[w].content

(***************************************************************************)
(* C17  Writes to a tenant file are last-write-wins with no locking and no *)
(* merging.  A save sends the writer's whole copy; it is rejected only     *)
(* when the stored file changed between the save's own get_contents and    *)
(* its update_file, and then the file stays as the other writer wrote it.  *)
(* Whenever both saves are accepted the stored file equals exactly what    *)
(* the later save wrote, and a save that is sent after the other writer's  *)
(* save has landed but was loaded before it overwrites that change.        *)
(***************************************************************************)
RejectedOnlyWhenOvertaken ==
    \A w \in Saved :
        ~writers[w].result =>
            \E v \in Saved :
                /\ v # w
                /\ writers[v].result
                /\ writers[v].put < writers[w].put
                /\ writers[v].op.file = writers[w].op.file
                /\ writers[v].content # writers[w].sha

LaterAcceptedSaveIsStored ==
    \A w \in Saved :
        (/\ writers[w].result
         /\ \A v \in Saved :
               (v # w /\ writers[v].result /\ writers[v].op.file = writers[w].op.file)
                  => writers[v].put < writers[w].put)
            => StoredNow(w) = writers[w].content

AcceptedIffUnchangedSinceSha ==
    \A w \in WriterIds :
        (writers[w].pc = "has_sha" /\ writers'[w].pc = "done") =>
            /\ writers'[w].result <=> (StoredNow(w) = writers[w].sha)
            /\ ~writers'[w].result =>
                  (user_access' = user_access /\ branding' = branding)

C17_LastWriteWins ==
    /\ [](RejectedOnlyWhenOvertaken /\ LaterAcceptedSaveIsStored)
    /\ [][AcceptedIffUnchangedSinceSha]_vars

\* a lost update: both writers loaded the same user list, both saves were
\* accepted, and the stored list is the later writer's, without the tier
\* the earlier writer set
C17_Witness ==
    /\ LoadedTheSame("w1", "w2")
    /\ writers["w1"].result /\ writers["w2"].result
    /\ writers["w1"].put < writers["w2"].put
    /\ writers["w1"].op.kind = "update_user_tier"
    /\ writers["w2"].op.kind = "add_user_access"
    /\ user_access["acme"] = writers["w2"].content
    /\ user_access["acme"].users[1].tier = "standard"


(***************************************************************************)
(* Tenant creation on a repository whose every call may fail               *)
(***************************************************************************)
NextCreate ==
    \E c \in AdminCustomers, e \in {"", "a@x.com"}, io \in CreateOutcomes :
       /\ create_customer_record(CustomerData(c, e, "Premium", "Acme News"), io)
       /\ UNCHANGED wizardVars

InitCreate == DiscoveryIdle /\ AccessIdle

SpecCreate == InitCreate /\ [][NextCreate]_vars

\* every file of the tenant exists, the first user's record too when a
\* contact e-mail was given
TenantComplete(c, contact_email) ==
    LET files == TenantFiles(c)
    IN /\ files.folder
       /\ files.customer_info.exists
       /\ files.branding.exists
       /\ files.keywords.exists
       /\ files.feeds.exists
       /\ contact_email # "" =>
             /\ files.user_access.exists
             /\ \E i \in 1..Len(files.user_access.users) :
                   files.user_access.users[i].email = contact_email

\* nothing of the tenant exists
TenantAbsent(c) ==
    LET files == TenantFiles(c)
    IN /\ ~files.folder
       /\ ~files.customer_info.exists
       /\ ~files.branding.exists
       /\ ~files.keywords.exists
       /\ ~files.feeds.exists
       /\ ~files.user_access.exists

\* C18: after create_customer_record has returned for a customer id that
\* did not exist, the tenant has either all of its files (folder,
\* customer_info, branding, keywords, feeds and, when a contact e-mail was
\* given, the first user's access record) or none of them, and the call
\* returned true exactly when it has all of them; a call for a customer id
\* that existed returns false.
C18_Atomic ==
    ret.op = "create_customer_record" =>
       IF ret.existed
       THEN ~ret.result
       ELSE /\ \/ TenantComplete(ret.customer_id, ret.email)
               \/ TenantAbsent(ret.customer_id)
            /\ ret.result <=> TenantComplete(ret.customer_id, ret.email)


(***************************************************************************)
(* Feed lists: validate_feeds and the three places that edit a feed list,  *)
(* the end-user feeds editor (config_manager.py), the admin configuration  *)
(* viewer (config_viewer.py) and step 4 of the onboarding wizard           *)
(* (streamlit_admin_app.py)                                                *)
(***************************************************************************)
MaxFeeds == 2

\* the same address as Feed1 in another case
Feed1Upper == "https://FEEDS.example/one.xml"

FeedFtp == "ftp://feeds.example/one.xml"

\* what the "Feed Name" and "Feed URL" text inputs can hold
FeedNameInputs == {"", "Feed One"}

FeedUrlInputs == {"", FeedFtp, Feed1, Feed1Upper}

FeedRecord(name, url, enabled) == [name |-> name, url |-> url, enabled |-> enabled]

\* url.startswith(("http://", "https://"))
FooterUrl == "https://beta.example"

StartsWithHttp(url) == url \in {Feed1, Feed2, Feed1Upper, FooterUrl}

validate_feeds(feeds) ==
    /\ \A i \in 1..Len(feeds) :
          /\ feeds[i].name # ""
          /\ feeds[i].url # ""
          /\ StartsWithHttp(feeds[i].url)
    /\ Len(feeds) = Cardinality({feeds[i].url : i \in 1..Len(feeds)})

\* list.remove(x): the list without its first element equal to x
ListRemove(list, x) ==
    LET i == CHOOSE k \in 1..Len(list) :
                /\ list[k] = x
                /\ \A j \in 1..(k - 1) : list[j] # x
    IN SubSeq(list, 1, i - 1) \o SubSeq(list, i + 1, Len(list))

\* load_feeds(customer_id), and customer_details.get('feeds', {}).get('feeds',
\* []): the empty list when the file cannot be read
load_feeds(customer_id, read_ok) ==
    IF read_ok /\ feeds_cfg[customer_id].exists
    THEN feeds_cfg[customer_id].feeds
    ELSE <<>>

\* save_feeds(customer_id, feeds) and update_customer_config(customer_id,
\* "feeds", feeds_data)
save_feeds(customer_id, feeds, write_ok) ==
    feeds_cfg' = IF write_ok
                 THEN [feeds_cfg EXCEPT ![customer_id] =
                         [exists |-> TRUE, feeds |-> feeds]]
                 ELSE feeds_cfg

FeedRet(op, customer_id, saved) ==
    [op |-> op, customer_id |-> customer_id, saved |-> saved]

feedFrame ==
    <<storeVars, sessionVars, keywords, feed_urls, time_period, gresp, rresp,
      now, pc, google_out, rss_out, background_out, found_articles,
      is_finding_news, selected_article_ids, newsletter_files, session_state,
      writers, customer_info, keywords_cfg, runVars>>

\* render_feeds_editor: the "Add Feed" button
EditorAddFeed(customer_id, email, feed_name, feed_url, io) ==
    LET feeds == load_feeds(customer_id, io.read_ok)
        test_feed == <<FeedRecord(feed_name, feed_url, TRUE)>>
        accepted == /\ has_permission(email, customer_id, "edit_config")
                    /\ feed_name # "" /\ feed_url # ""
                    /\ validate_feeds(test_feed)
    IN /\ Len(feeds) < MaxFeeds
       /\ save_feeds(customer_id, Append(feeds, test_feed[1]),
                     accepted /\ io.write_ok)
       /\ ret' = FeedRet("editor_add_feed", customer_id, accepted /\ io.write_ok)
       /\ UNCHANGED <<feedFrame, onboarding_data>>

\* render_feeds_editor: the "Enabled" checkbox of the feed at idx is changed
EditorToggleFeed(customer_id, email, idx, io) ==
    LET feeds == load_feeds(customer_id, io.read_ok)
        allowed == has_permission(email, customer_id, "edit_config")
    IN /\ idx \in 1..Len(feeds)
       /\ save_feeds(customer_id,
                     [feeds EXCEPT ![idx].enabled = ~feeds[idx].enabled],
                     allowed /\ io.write_ok)
       /\ ret' = FeedRet("editor_toggle_feed", customer_id, allowed /\ io.write_ok)
       /\ UNCHANGED <<feedFrame, onboarding_data>>

\* render_feeds_editor: the "Delete" button of the feed at idx
EditorDeleteFeed(customer_id, email, idx, io) ==
    LET feeds == load_feeds(customer_id, io.read_ok)
        allowed == has_permission(email, customer_id, "edit_config")
    IN /\ idx \in 1..Len(feeds)
       /\ save_feeds(customer_id, ListRemove(feeds, feeds[idx]),
                     allowed /\ io.write_ok)
       /\ ret' = FeedRet("editor_delete_feed", customer_id, allowed /\ io.write_ok)
       /\ UNCHANGED <<feedFrame, onboarding_data>>

\* render_feeds_config: the "Update" button of the feed at idx
ViewerUpdateFeed(customer_id, idx, feed_name, feed_url, feed_enabled, io) ==
    LET feeds == load_feeds(customer_id, io.read_ok)
        accepted == feed_name # "" /\ feed_url # "" /\ StartsWithHttp(feed_url)
    IN /\ idx \in 1..Len(feeds)
       /\ save_feeds(customer_id,
                     [feeds EXCEPT ![idx] =
                         FeedRecord(feed_name, feed_url, feed_enabled)],
                     accepted /\ io.write_ok)
       /\ ret' = FeedRet("viewer_update_feed", customer_id, accepted /\ io.write_ok)
       /\ UNCHANGED <<feedFrame, onboarding_data>>

\* render_feeds_config: the "Delete" button of the feed at idx
ViewerDeleteFeed(customer_id, idx, io) ==
    LET feeds == load_feeds(customer_id, io.read_ok)
    IN /\ idx \in 1..Len(feeds)
       /\ save_feeds(customer_id, ListRemove(feeds, feeds[idx]), io.write_ok)
       /\ ret' = FeedRet("viewer_delete_feed", customer_id, io.write_ok)
       /\ UNCHANGED <<feedFrame, onboarding_data>>

\* render_feeds_config: the "Add Feed" button
ViewerAddFeed(customer_id, new_feed_name, new_feed_url, io) ==
    LET feeds == load_feeds(customer_id, io.read_ok)
        accepted == /\ new_feed_name # "" /\ new_feed_url # ""
                    /\ StartsWithHttp(new_feed_url)
    IN /\ Len(feeds) < MaxFeeds
       /\ save_feeds(customer_id,
                     Append(feeds, FeedRecord(new_feed_name, new_feed_url, TRUE)),
                     accepted /\ io.write_ok)
       /\ ret' = FeedRet("viewer_add_feed", customer_id, accepted /\ io.write_ok)
       /\ UNCHANGED <<feedFrame, onboarding_data>>

\* any(f.get('url', '').lower() == feed_url.lower() for f in existing_feeds)
AlreadyAdded(existing_feeds, feed_url) ==
    \E i \in 1..Len(existing_feeds) :
       Lower(existing_feeds[i].url) = Lower(feed_url)

\* render_onboarding_step4_feeds: the "Add Feed" button
WizardAddFeed(feed_name, feed_url) ==
    LET existing_feeds == onboarding_data.feeds
        accepted == /\ feed_name # "" /\ feed_url # ""
                    /\ StartsWithHttp(feed_url)
                    /\ ~AlreadyAdded(existing_feeds, feed_url)
    IN /\ Len(existing_feeds) < MaxFeeds
       /\ onboarding_data' =
             IF accepted
             THEN [onboarding_data EXCEPT !.feeds =
                     Append(existing_feeds, FeedRecord(feed_name, feed_url, TRUE))]
             ELSE onboarding_data
       /\ ret' = FeedRet("wizard_add_feed", "", accepted)
       /\ UNCHANGED <<feedFrame, feeds_cfg>>

\* render_onboarding_step4_feeds: the "Delete" button of the feed at idx
WizardDeleteFeed(idx) ==
    /\ idx \in 1..Len(onboarding_data.feeds)
    /\ onboarding_data' =
          [onboarding_data EXCEPT !.feeds =
              ListRemove(onboarding_data.feeds, onboarding_data.feeds[idx])]
    /\ ret' = FeedRet("wizard_delete_feed", "", TRUE)
    /\ UNCHANGED <<feedFrame, feeds_cfg>>

\* render_onboarding_step4_feeds: the "Skip feeds for now" checkbox
WizardSkipFeeds ==
    /\ onboarding_data' = [onboarding_data EXCEPT !.feeds = <<>>]
    /\ ret' = FeedRet("wizard_skip_feeds", "", TRUE)
    /\ UNCHANGED <<feedFrame, feeds_cfg>>

\* the customer_data step 7 of the wizard builds from onboarding_data
WizardData(customer_id, contact_email) ==
    [CustomerData(customer_id, contact_email, "Premium", "Beta Brief")
        EXCEPT !.feeds = onboarding_data.feeds]

\* render_onboarding_step7_create: the "Create Customer Account" button
WizardCreate(customer_id, contact_email, io) ==
    /\ create_customer_record(WizardData(customer_id, contact_email), io)
    /\ onboarding_data' = IF ret'.result THEN EmptyOnboarding ELSE onboarding_data
    /\ onboarding_step' = IF ret'.result THEN 1 ELSE onboarding_step

NextFeeds ==
    \/ \E e \in {"a@x.com", "b@x.com"}, n \in FeedNameInputs, u \in FeedUrlInputs,
          io \in AccessOutcomes :
          EditorAddFeed("acme", e, n, u, io)
    \/ \E idx \in 1..MaxFeeds, io \in AccessOutcomes :
          EditorToggleFeed("acme", "a@x.com", idx, io)
    \/ \E idx \in 1..MaxFeeds, io \in AccessOutcomes :
          EditorDeleteFeed("acme", "a@x.com", idx, io)
    \/ \E idx \in 1..MaxFeeds, u \in FeedUrlInputs, en \in BOOLEAN,
          io \in AccessOutcomes :
          ViewerUpdateFeed("acme", idx, "Feed One", u, en, io)
    \/ \E idx \in 1..MaxFeeds, io \in AccessOutcomes :
          ViewerDeleteFeed("acme", idx, io)
    \/ \E n \in FeedNameInputs, u \in FeedUrlInputs, io \in AccessOutcomes :
          ViewerAddFeed("acme", n, u, io)
    \/ \E n \in FeedNameInputs, u \in FeedUrlInputs : WizardAddFeed(n, u)
    \/ \E idx \in 1..MaxFeeds : WizardDeleteFeed(idx)
    \/ WizardSkipFeeds
    \/ \E io \in CreateOutcomes : WizardCreate("beta", "", io)

\* the tenant acme with a Premium user, a Basic user and no feed yet
InitFeeds ==
    /\ now = Now0
    /\ keywords = <<>>
    /\ feed_urls = <<>>
    /\ time_period = "Last 7 days"
    /\ gresp = (KW1 :> Response(TRUE, "", <<>>)) @@ (KW2 :> Response(TRUE, "", <<>>))
    /\ rresp = (Feed1 :> Response(TRUE, FeedTitle(Feed1), <<>>)) @@
               (Feed2 :> Response(TRUE, FeedTitle(Feed2), <<>>))
    /\ pc = "ready"
    /\ google_out = <<>>
    /\ rss_out = <<>>
    /\ background_out = <<>>
    /\ found_articles = <<>>
    /\ is_finding_news = FALSE
    /\ selected_article_ids = {}
    /\ newsletter_files = [c \in CustomerIds |-> NoNewsletter]
    /\ session_state = [s \in SessionIds |-> FreshSessionState]
    /\ writers = [w \in WriterIds |-> IdleWriter]
    /\ customer_info = [c \in CustomerIds |->
                          IF c = "acme"
                          THEN [exists |-> TRUE, contact_email |-> "a@x.com"]
                          ELSE NoCustomerInfo]
    /\ keywords_cfg = [c \in CustomerIds |->
                         IF c = "acme" THEN [exists |-> TRUE, keywords |-> <<>>]
                         ELSE NoKeywords]
    /\ feeds_cfg = [c \in CustomerIds |->
                      IF c = "acme" THEN [exists |-> TRUE, feeds |-> <<>>]
                      ELSE NoFeeds]
    /\ onboarding_data = EmptyOnboarding
    /\ RunIdle
    /\ FreshSession
    /\ customer_dirs = {"acme"}
    /\ user_access = [c \in CustomerIds |->
                        IF c = "acme"
                        THEN FileOf(<<NewUser("a@x.com", "changeme123", "Premium",
                                              "admin", EmptyText),
                                      NewUser("b@x.com", "changeme123", "Basic",
                                              "viewer", EmptyText)>>)
                        ELSE NoUserAccess]
    /\ branding = [c \in CustomerIds |->
                     IF c = "acme" THEN BrandingOf("Acme News") ELSE NoBranding]

SpecFeeds == InitFeeds /\ [][NextFeeds]_vars

\* C19: no tenant's feed list holds two feeds whose urls are equal
\* ignoring case.
C19_UniqueFeedUrls ==
    \A c \in CustomerIds :
       \A i, j \in 1..Len(feeds_cfg[c].feeds) :
          i # j => Lower(feeds_cfg[c].feeds[i].url) # Lower(feeds_cfg[c].feeds[j].url)


(***************************************************************************)
(* The user lists of the tenants under the operations that write them      *)
(***************************************************************************)
\* change_password(customer_id, user_email, old_password, new_password,
\* confirm_password), with load_user_access and save_user_access
change_password(customer_id, email, old_password, new_password, confirm_password, io) ==
    LET edit == PasswordEdit(user_access[customer_id], email, old_password,
                             new_password, confirm_password)
        result == io.read_ok /\ edit.ok /\ io.write_ok
    IN /\ IF result
          THEN WriteUserAccess(customer_id, edit.content.users)
          ELSE UNCHANGED <<user_access, customer_dirs>>
       /\ ret' = AdminRet("change_password", customer_id, email, "", result) @@
                 [old_password |-> old_password, new_password |-> new_password]
       /\ UNCHANGED <<branding, sessionVars, discoveryVars>>

NextUsers ==
    \/ \E c \in AdminCustomers, e \in {"", "A@x.com"},
          io \in {o \in CreateOutcomes : o.info_ok /\ o.branding_ok /\
                                          o.keywords_ok /\ o.feeds_ok} :
          /\ create_customer_record(CustomerData(c, e, "Premium", "Acme News"), io)
          /\ UNCHANGED wizardVars
    \/ \E c \in AdminCustomers, e \in {"a@x.com", " B@x.com "}, io \in AccessOutcomes :
          add_user_access(c, e, "Standard", "viewer", "changeme123", io)
    \/ \E io \in AccessOutcomes :
          update_user_tier("acme", "a@x.com", "Basic", io)
    \/ \E e \in {"a@x.com", "B@x.com"}, io \in AccessOutcomes :
          remove_user_access("acme", e, io)
    \/ \E io \in AccessOutcomes :
          change_password("acme", "A@x.com", "changeme123", "newpass456",
                          "newpass456", io)

SpecUsers == InitAdmin /\ [][NextUsers]_vars

\* no two records of the list have e-mails that are equal ignoring case
UniqueEmails(users) ==
    \A i, j \in 1..Len(users) :
       i # j => Lower(users[i].email) # Lower(users[j].email)

\* the tenants whose user list holds a record for the e-mail, ignoring case
TenantsOf(email) ==
    {c \in CustomerIds :
        \E i \in 1..Len(user_access[c].users) :
           Lower(user_access[c].users[i].email) = Lower(email)}

\* an operation on one tenant leaves the user lists of the others as they are
OtherTenantsKept ==
    \A c \in CustomerIds :
       c # ret'.customer_id => user_access'[c] = user_access[c]

\* C20: after any sequence of create_customer_record, add_user_access,
\* update_user_tier, remove_user_access and change_password no tenant's user
\* list holds two records whose e-mails are equal ignoring case; the records
\* an e-mail holds in different tenants are independent: an operation on one
\* tenant changes no other tenant's list.
C20_UniqueUsers ==
    /\ [](\A c \in CustomerIds : UniqueEmails(user_access[c].users))
    /\ [][OtherTenantsKept]_vars

\* the contact e-mail A@x.com of acme was added to beta as a@x.com and
\* refused a second time in acme; its two records have different tiers
C20_Witness ==
    /\ ret.op = "add_user_access" /\ ret.customer_id = "acme" /\ ~ret.result
    /\ ret.email = "a@x.com"
    /\ TenantsOf("a@x.com") = {"acme", "beta"}
    /\ \E i \in 1..Len(user_access["acme"].users),
          j \in 1..Len(user_access["beta"].users) :
          /\ user_access["acme"].users[i].email = "A@x.com"
          /\ user_access["beta"].users[j].email = "a@x.com"
          /\ user_access["acme"].users[i].tier # user_access["beta"].users[j].tier


(***************************************************************************)
(* Entries with every kind of date field                                   *)
(***************************************************************************)
InitDates ==
    DiscoverEnv({<<KW1>>}, {<<Feed1>>}, {"Last 7 days"},
                EntriesOf({UrlA, UrlB}, {24},
                          {"parsed", "rfc822", "iso", "garbage", "none"}),
                {TRUE})

SpecDates == InitDates /\ [][NextDiscover]_vars

\* the published time the stated chain gives an entry: the parsed time
\* struct, else the RFC-822 text, else the ISO-8601 text, else the current
\* time
ChainTime(e, t_now) ==
    IF e.kind \in {"parsed", "rfc822", "iso"} THEN e.t ELSE t_now

\* the article is an entry of the response with the time the chain gives it
FromChain(a, entries) ==
    \E i \in 1..Len(entries) :
       entries[i].link = a.url /\ a.published_datetime = ChainTime(entries[i], now)

\* C21: in the search-feed fetcher and in the RSS fetcher the published
\* time of an article is the result of the first step that succeeds in the
\* chain parsed time struct, RFC-822 text, ISO-8601 text, current time; an
\* entry whose date text matches no format is returned with the current
\* time.
C21_DateChain ==
    /\ pc = "google" =>
          /\ \A i \in 1..Len(google_out) :
                FromChain(google_out[i], gresp[google_out[i].category].entries)
          /\ \A k \in Range(keywords) : \A j \in 1..Len(gresp[k].entries) :
                gresp[k].entries[j].kind = "garbage" =>
                   gresp[k].entries[j].link \in UrlsOf(google_out)
    /\ pc = "rss" =>
          /\ \A i \in 1..Len(rss_out) :
                \E f \in Range(feed_urls) : FromChain(rss_out[i], rresp[f].entries)
          /\ \A f \in Range(feed_urls) : \A j \in 1..Len(rresp[f].entries) :
                rresp[f].entries[j].kind = "garbage" =>
                   rresp[f].entries[j].link \in UrlsOf(rss_out)


(***************************************************************************)
(* Responses in which the processing of an entry fails                     *)
(***************************************************************************)
InitBadEntry ==
    DiscoverEnv({<<KW1>>, <<KW1, KW2>>}, {<<Feed1>>}, {"Last 7 days"},
                EntriesOf({UrlA, UrlB, UrlC1}, {24}, {"parsed", "badstruct"}),
                {TRUE})

SpecBadEntry == InitBadEntry /\ [][NextDiscover]_vars

\* the links of the entries of a response whose processing does not fail
GoodLinks(resp) ==
    {resp.entries[i].link :
        i \in {k \in 1..Len(resp.entries) : resp.entries[k].kind # "badstruct"}}

\* C22: when the processing of one entry of a response fails, the other
\* entries of that response, those before and those after the bad entry,
\* are still returned by the fetcher.
C22_EntryIsolated ==
    /\ pc = "google" =>
          \A k \in Range(keywords) : GoodLinks(gresp[k]) \subseteq UrlsOf(google_out)
    /\ pc = "rss" =>
          \A f \in Range(feed_urls) : GoodLinks(rresp[f]) \subseteq UrlsOf(rss_out)


(***************************************************************************)
(* find_news_google step by step: per keyword the request with the         *)
(* processing of its response, then time.sleep(0.5).  google_call is       *)
(* [pc, i, acc, slept, delays]: i the index of the keyword, acc the        *)
(* articles and seen urls, slept whether time.sleep has run since the last *)
(* request, delays for every request after the first whether it had.       *)
(***************************************************************************)
callFrame ==
    <<envVars, pc, rss_out, background_out, found_articles, is_finding_news,
      selected_article_ids, newsletter_files, session_state, writers,
      configVars, onboarding_step, accessVars>>

\* time.sleep(0.5) is the last statement of the try block: an exception
\* before it goes to the except clause and on to the next keyword
SleepReached(failed) == ~failed

\* the loop goes on with the next keyword, or the function returns
NextKeyword(call) ==
    IF call.i < Len(keywords)
    THEN [call EXCEPT !.pc = "request", !.i = call.i + 1]
    ELSE [call EXCEPT !.pc = "done"]

\* find_news_google(keywords, time_period) is entered
GoogleEnter ==
    /\ google_call.pc = "idle"
    /\ keywords # <<>>
    /\ google_call' = [pc |-> "request", i |-> 1, acc |-> EmptyAcc,
                       slept |-> FALSE, delays |-> <<>>]
    /\ UNCHANGED <<callFrame, google_out>>

\* requests.get, raise_for_status, feedparser.parse and the entry loop
GoogleRequest ==
    /\ google_call.pc = "request"
    /\ LET resp == gresp[keywords[google_call.i]]
           r == ProcessEntries(
                    Take(resp.entries, DefaultMaxResults \div Len(keywords)),
                    google_call.acc, "google", keywords[google_call.i],
                    WindowDays(time_period))
           failed == ~resp.ok \/ r.raised
           requested == [google_call EXCEPT
                           !.acc = IF resp.ok THEN [r EXCEPT !.raised = FALSE]
                                   ELSE google_call.acc,
                           !.slept = FALSE,
                           !.delays = IF google_call.i = 1 THEN <<>>
                                      ELSE Append(google_call.delays,
                                                  google_call.slept)]
       IN google_call' = IF SleepReached(failed)
                         THEN [requested EXCEPT !.pc = "sleep"]
                         ELSE NextKeyword(requested)
    /\ UNCHANGED <<callFrame, google_out>>

\* time.sleep(0.5)
GoogleSleep ==
    /\ google_call.pc = "sleep"
    /\ google_call' = NextKeyword([google_call EXCEPT !.slept = TRUE])
    /\ UNCHANGED <<callFrame, google_out>>

\* articles.sort(...); return articles[:max_results]
GoogleReturn ==
    /\ google_call.pc = "done"
    /\ google_out' = Take(SortNewestFirst(google_call.acc.articles),
                          DefaultMaxResults)
    /\ google_call' = [google_call EXCEPT !.pc = "returned"]
    /\ UNCHANGED callFrame

NextCall == GoogleEnter \/ GoogleRequest \/ GoogleSleep \/ GoogleReturn

\* two keywords, requests that fail, entries whose processing fails
InitCall ==
    DiscoverEnv({<<KW1, KW2>>}, {<<>>}, {"Last 7 days"},
                EntriesOf({UrlA, UrlB}, {24}, {"parsed", "badstruct"}),
                {TRUE, FALSE})

SpecCall == InitCall /\ [][NextCall]_vars

\* the call followed step by step returns what find_news_google computes
CallReturnsTheSame ==
    google_call.pc = "returned" =>
       google_out = find_news_google(keywords, time_period, DefaultMaxResults)

\* C23: within one find_news_google call the inter-keyword delay has
\* elapsed between the request of a keyword and the request of the next
\* keyword, also when the earlier request or the processing of its response
\* failed.
C23_DelayBetweenRequests ==
    google_call.pc # "idle" =>
       \A j \in 1..Len(google_call.delays) : google_call.delays[j]


(***************************************************************************)
(* One user of two tenants that have different keywords: discovery reads   *)
(* the keywords and feeds of the current tenant                            *)
(***************************************************************************)
\* [k for k in config_manager.load_keywords(current_customer_id) if k]
TenantKeywords(customer_id) ==
    SelectSeq(IF keywords_cfg[customer_id].exists
              THEN keywords_cfg[customer_id].keywords ELSE <<>>,
              LAMBDA k : k # "")

\* [f['url'] for f in feeds_config if f.get('enabled', True)]
RECURSIVE EnabledUrls(_)
EnabledUrls(feeds) ==
    IF feeds = <<>> THEN <<>>
    ELSE (IF Head(feeds).enabled THEN <<Head(feeds).url>> ELSE <<>>)
         \o EnabledUrls(Tail(feeds))

TenantFeedUrls(customer_id) == EnabledUrls(load_feeds(customer_id, TRUE))

\* what a discovery run for the tenant finds
DiscoveredFor(customer_id) ==
    DashboardDiscover(TenantKeywords(customer_id), TenantFeedUrls(customer_id),
                      time_period)

\* "Find News" in session s
SessionDiscover(s) ==
    /\ SessionOnDashboard(s)
    /\ LET customer_id == SessionGet(s).current_customer_id
       IN SessionPut(s, [SessionGet(s) EXCEPT !.found_articles =
                            IF /\ TenantKeywords(customer_id) = <<>>
                               /\ TenantFeedUrls(customer_id) = <<>>
                            THEN @
                            ELSE DiscoveredFor(customer_id)])
    /\ ret' = SessionRet("find_news", s)
    /\ UNCHANGED newsletter_files

NextTenants ==
    \/ SessionLogin("s1", "a@x.com", "changeme123")
    \/ \E n \in {"Acme News", "Beta Brief"} : SessionSwitch("s1", n)
    \/ SessionDiscover("s1")
    \/ \E view \in FilterViews(SessionGet("s1").found_articles) :
          SessionSelectAll("s1", view)
    \/ \E idx \in 1..Len(SessionGet("s1").found_articles), selected \in BOOLEAN :
          SessionToggle("s1", idx, selected)
    \/ \E article_ids \in Orderings(SessionGet("s1").selected_article_ids),
          save_ok \in BOOLEAN : SessionPublish("s1", article_ids, save_ok)
    \/ SessionLogout("s1")

\* a@x.com may generate in acme and in beta; acme searches for KW1, beta
\* for KW2 and reads Feed1
InitTenants ==
    /\ now = Now0
    /\ keywords = <<>>
    /\ feed_urls = <<>>
    /\ time_period = "Last 7 days"
    /\ gresp = (KW1 :> Response(TRUE, "", <<Entry(UrlB, 24), Entry(UrlA, 0)>>)) @@
               (KW2 :> Response(TRUE, "", <<Entry(UrlC1, 24)>>))
    /\ rresp = (Feed1 :> Response(TRUE, FeedTitle(Feed1), <<Entry(UrlC2, 0)>>)) @@
               (Feed2 :> Response(TRUE, FeedTitle(Feed2), <<>>))
    /\ pc = "ready"
    /\ google_out = <<>>
    /\ rss_out = <<>>
    /\ background_out = <<>>
    /\ found_articles = <<>>
    /\ is_finding_news = FALSE
    /\ selected_article_ids = {}
    /\ newsletter_files = [c \in CustomerIds |-> NoNewsletter]
    /\ session_state = [s \in SessionIds |-> FreshSessionState]
    /\ writers = [w \in WriterIds |-> IdleWriter]
    /\ customer_info = [c \in CustomerIds |->
                          IF c \in {"acme", "beta"}
                          THEN [exists |-> TRUE, contact_email |-> "a@x.com"]
                          ELSE NoCustomerInfo]
    /\ keywords_cfg = [c \in CustomerIds |->
                         IF c = "acme" THEN [exists |-> TRUE, keywords |-> <<KW1>>]
                         ELSE IF c = "beta" THEN [exists |-> TRUE, keywords |-> <<KW2>>]
                         ELSE NoKeywords]
    /\ feeds_cfg = [c \in CustomerIds |->
                      IF c = "acme" THEN [exists |-> TRUE, feeds |-> <<>>]
                      ELSE IF c = "beta"
                      THEN [exists |-> TRUE,
                            feeds |-> <<FeedRecord("Feed One", Feed1, TRUE)>>]
                      ELSE NoFeeds]
    /\ onboarding_data = EmptyOnboarding
    /\ RunIdle
    /\ FreshSession
    /\ customer_dirs = {"acme", "beta"}
    /\ user_access = [c \in CustomerIds |->
                        IF c \in {"acme", "beta"}
                        THEN FileOf(<<NewUser("a@x.com", "changeme123", "Standard",
                                              "editor", EmptyText)>>)
                        ELSE NoUserAccess]
    /\ branding = [c \in CustomerIds |->
                     IF c = "acme" THEN BrandingOf("Acme News")
                     ELSE IF c = "beta" THEN BrandingOf("Beta Brief")
                     ELSE NoBranding]

SpecTenants == InitTenants /\ [][NextTenants]_vars

\* C24: the article pool and the selection of a session hold only articles
\* of a discovery run made for the session's current tenant, also after the
\* user has switched the tenant, and every newsletter saved for a tenant
\* holds only articles of a discovery run made for that tenant.
C24_TenantScoped ==
    /\ \A s \in SessionIds :
          session_state[s].current_customer_id # "" =>
             LET customer_id == session_state[s].current_customer_id
             IN /\ UrlsOf(session_state[s].found_articles)
                      \subseteq UrlsOf(DiscoveredFor(customer_id))
                /\ session_state[s].selected_article_ids
                      \subseteq IdsOf(DiscoveredFor(customer_id))
    /\ \A c \in CustomerIds :
          \A i \in 1..Len(newsletter_files[c].articles) :
             newsletter_files[c].articles[i].article_url
                \in UrlsOf(DiscoveredFor(c))

(***************************************************************************)
(* The Branding tab of the configuration page                              *)
(***************************************************************************)
AppNameInputs == {"Acme News", "Acme Weekly", ""}

\* a run of main() that reaches render_branding_editor for the current
\* company with the form submitted; save_ok is whether save_config_auto
\* succeeds.  main() has called load_customer_config before the page is
\* rendered.
render_branding_editor(application_name, save_ok) ==
    /\ authenticated
    /\ current_customer_id # ""
    /\ current_customer_id \in SelectableCustomers(RenderNewsletters(user_email))
    /\ has_permission(user_email, current_customer_id, "edit_config")
    /\ user_newsletters' = RenderNewsletters(user_email)
    /\ config_cache' = ConfigAfterLoad(current_customer_id)
    /\ LET valid == Strip(application_name) # ""
           saved == valid /\ save_ok
       IN /\ branding' =
                 IF saved
                 THEN [branding EXCEPT ![current_customer_id] =
                          BrandingOf(Strip(application_name))]
                 ELSE branding
          /\ ret' = [op |-> "save_branding", customer_id |-> current_customer_id,
                     application_name |-> application_name, result |-> saved]
    /\ UNCHANGED <<customer_dirs, user_access, authenticated, user_email,
                   current_customer_id, session_valid_until, discoveryVars>>

\* one premium user of one tenant: discovery, selection, the branding form
\* and generation in one session
NextBranding ==
    \/ Login("a@x.com", "changeme123")
    \/ \E name \in AppNameInputs : Render(name)
    \/ FindNews
    \/ \E view \in FilterViews(found_articles) : SelectAll(view)
    \/ GenerateClick
    \/ \E name \in AppNameInputs, save_ok \in BOOLEAN :
          render_branding_editor(name, save_ok)

InitBranding ==
    /\ now = Now0
    /\ keywords = <<KW1>>
    /\ feed_urls = <<Feed1>>
    /\ time_period = "Last 7 days"
    /\ gresp = (KW1 :> Response(TRUE, "", <<Entry(UrlB, 24), Entry(UrlA, 0)>>)) @@
               (KW2 :> Response(TRUE, "", <<>>))
    /\ rresp = (Feed1 :> Response(TRUE, FeedTitle(Feed1), <<Entry(UrlC1, 24)>>)) @@
               (Feed2 :> Response(TRUE, FeedTitle(Feed2), <<>>))
    /\ pc = "ready"
    /\ google_out = <<>>
    /\ rss_out = <<>>
    /\ background_out = <<>>
    /\ found_articles = <<>>
    /\ is_finding_news = FALSE
    /\ DashboardIdle
    /\ FreshSession
    /\ customer_dirs = {"acme"}
    /\ user_access = [c \in CustomerIds |->
                        IF c = "acme"
                        THEN FileOf(<<NewUser("a@x.com", "changeme123", "Premium",
                                              "admin", EmptyText)>>)
                        ELSE NoUserAccess]
    /\ branding = [c \in CustomerIds |->
                     IF c = "acme" THEN BrandingOf("Acme News") ELSE NoBranding]

SpecBranding == InitBranding /\ [][NextBranding]_vars

\* C25: a newsletter generated for a tenant is rendered with the branding
\* stored for that tenant, hence with the branding the user saved earlier in
\* the session and not with the values loaded before the save.
C25_SavedBrandingUsed ==
    (ret.op = "generate" /\ ret.saved) =>
       ret.application_name = BrandingName(ret.customer_id)

(***************************************************************************)
(* The dashboard's loop against find_news_background                       *)
(***************************************************************************)
\* C26: for the same keywords, feeds, time window and feed contents the
\* dashboard's incremental discovery loop leaves in found_articles exactly
\* the list find_news_background returns.
C26_SameAsBackground ==
    pc = "dashboard" =>
       found_articles = find_news_background(keywords, feed_urls, time_period)

(***************************************************************************)
(* The admin removes and adds the user while the user works in the app     *)
(***************************************************************************)
WriteDone == [read_ok |-> TRUE, write_ok |-> TRUE]

NextMembership ==
    \/ Login("a@x.com", "changeme123")
    \/ \E name \in {"Acme News", "Beta Brief", ""} : Render(name)
    \/ FindNews
    \/ \E view \in FilterViews(found_articles) : SelectAll(view)
    \/ GenerateClick
    \/ render_branding_editor("Acme News", TRUE)
    \/ \E c \in AdminCustomers : remove_user_access(c, "a@x.com", WriteDone)
    \/ \E c \in AdminCustomers :
          add_user_access(c, "a@x.com", "Premium", "viewer", "changeme123",
                          WriteDone)

InitMembership ==
    /\ now = Now0
    /\ keywords = <<KW1>>
    /\ feed_urls = <<>>
    /\ time_period = "Last 7 days"
    /\ gresp = (KW1 :> Response(TRUE, "", <<Entry(UrlA, 0)>>)) @@
               (KW2 :> Response(TRUE, "", <<>>))
    /\ rresp = (Feed1 :> Response(TRUE, FeedTitle(Feed1), <<>>)) @@
               (Feed2 :> Response(TRUE, FeedTitle(Feed2), <<>>))
    /\ pc = "ready"
    /\ google_out = <<>>
    /\ rss_out = <<>>
    /\ background_out = <<>>
    /\ found_articles = <<>>
    /\ is_finding_news = FALSE
    /\ DashboardIdle
    /\ FreshSession
    /\ customer_dirs = AdminCustomers
    /\ user_access = [c \in CustomerIds |->
                        IF c \in AdminCustomers
                        THEN FileOf(<<NewUser("a@x.com", "changeme123", "Premium",
                                              "admin", EmptyText)>>)
                        ELSE NoUserAccess]
    /\ branding = [c \in CustomerIds |->
                     IF c = "acme" THEN BrandingOf("Acme News")
                     ELSE IF c = "beta" THEN BrandingOf("Beta Brief")
                     ELSE NoBranding]

SpecMembership == InitMembership /\ [][NextMembership]_vars

\* the last run of main() rendered a page for the current tenant, or ran
\* discovery or publication for it
PageRun ==
    \/ ret.op = "render" /\ ret.page = "main"
    \/ ret.op \in {"find_news", "select_all", "generate", "save_branding"}

\* C27: whenever a page is rendered for the current tenant, and whenever
\* discovery or publication runs for it, the current tenant is one of the
\* tenants whose user list holds the logged-in e-mail, also after the user
\* was removed from the tenant that was current before; a run for a user
\* who is in no tenant's list renders none of the pages.
C27_CurrentTenantIsMember ==
    /\ PageRun => current_customer_id \in Listing(user_email)
    /\ (ret.op = "render" /\ Listing(user_email) = {}) => ret.page = "none"
    /\ (ret.op = "render" /\ ret.page = "switch") =>
          current_customer_id \in Listing(user_email)

\* the run found that the user is no longer in the list of the tenant that
\* was current and moved the session to a tenant the user is still in
C27_Witness ==
    /\ ret.op = "render" /\ ret.page = "switch"
    /\ ret.customer_id # ""
    /\ ret.customer_id \notin Listing(user_email)
    /\ current_customer_id \in Listing(user_email)

(***************************************************************************)
(* A password change followed by logins                                    *)
(***************************************************************************)
PasswordInputs == {"", "abc", "changeme123", "newpass456"}

NextPassword ==
    \/ \E c \in AdminCustomers, old_password \in PasswordInputs,
          new_password \in PasswordInputs,
          confirm_password \in {"newpass456", "changeme123"},
          io \in AccessOutcomes :
          change_password(c, "a@x.com", old_password, new_password,
                          confirm_password, io)
    \/ \E password \in {"changeme123", "newpass456"} : Login("a@x.com", password)
    \/ Logout

\* the user has a record in acme, and in beta as well or not
InitPassword ==
    /\ DiscoveryIdle
    /\ FreshSession
    /\ customer_dirs = AdminCustomers
    /\ \E in_beta \in BOOLEAN :
          user_access = [c \in CustomerIds |->
                           IF c = "acme" \/ (c = "beta" /\ in_beta)
                           THEN FileOf(<<NewUser("a@x.com", "changeme123",
                                                 "Standard", "editor", EmptyText)>>)
                           ELSE IF c = "beta" THEN FileOf(<<>>)
                           ELSE NoUserAccess]
    /\ branding = [c \in CustomerIds |->
                     IF c = "acme" THEN BrandingOf("Acme News")
                     ELSE IF c = "beta" THEN BrandingOf("Beta Brief")
                     ELSE NoBranding]

SpecPassword == InitPassword /\ [][NextPassword]_vars

\* after a successful change the old password is refused and the new one
\* accepted
PasswordReplaced ==
    (ret.op = "change_password" /\ ret.result) =>
       /\ ~authenticate_user(ret.email, ret.old_password).ok
       /\ authenticate_user(ret.email, ret.new_password).ok

\* a change that returns failure leaves the stored user lists as they were
FailureKeepsFile ==
    (ret'.op = "change_password" /\ ~ret'.result) => user_access' = user_access

\* C28: after change_password succeeds for a user, authenticate with the old
\* password fails and authenticate with the new password succeeds, also when
\* the e-mail holds records in other tenants; when change_password returns
\* failure the stored user-access file is unchanged.
C28_PasswordReplaced == [](PasswordReplaced) /\ [][FailureKeepsFile]_vars

(***************************************************************************)
(* The onboarding wizard of the admin app: the steps, their validation and *)
(* the creation at step 7 (render_customer_onboarding)                     *)
(***************************************************************************)
\* data.get(field) of a dictionary whose values are texts; "" for a missing
\* key, which "not data.get(field)" treats like an empty text
DictGet(data, field) == IF field \in DOMAIN data THEN data[field] ELSE ""

\* data.update(values)
DictUpdate(data, values) ==
    [k \in DOMAIN data \cup DOMAIN values |->
        IF k \in DOMAIN values THEN values[k] ELSE data[k]]

\* validate_required_field of a text that was stripped
validate_required_field(value) == value # ""

\* the values of the form fields when "Next" is clicked
WizardForms ==
    [customer_id : {"", "beta"}, company_name : {"Beta Corp"},
     short_name : {"BETA"}, application_name : {"", "Beta Brief"},
     footer_text : {"", "Beta Corp"}, footer_url : {"", FooterUrl, FeedFtp},
     contact_name : {"Bea"}, contact_email : {"", "b@x.com"},
     subscription_tier : {"Premium"}]

\* whether the fields of the step pass its validation
StepValid(step, form) ==
    CASE step = 1 -> /\ validate_customer_id(form.customer_id)
                     /\ validate_required_field(form.company_name)
                     /\ validate_required_field(form.short_name)
      [] step = 2 -> /\ validate_required_field(form.application_name)
                     /\ form.footer_url # "" => StartsWithHttp(form.footer_url)
      [] step = 5 -> /\ validate_required_field(form.contact_name)
                     /\ validate_email(form.contact_email)
      [] OTHER -> TRUE

\* what the step saves into onboarding_data
StepData(step, form) ==
    CASE step = 1 -> [customer_id |-> Lower(form.customer_id),
                      company_name |-> form.company_name,
                      short_name |-> form.short_name]
      [] step = 2 -> [application_name |-> form.application_name,
                      footer_text |-> form.footer_text,
                      footer_url |-> form.footer_url]
      [] step = 4 -> [feeds |-> onboarding_data.feeds]
      [] step = 5 -> [contact_name |-> form.contact_name,
                      contact_email |-> Lower(form.contact_email),
                      subscription_tier |-> form.subscription_tier]
      [] OTHER -> [feeds |-> onboarding_data.feeds]

wizardFrame ==
    <<storeVars, sessionVars, envVars, pc, google_out, rss_out, background_out,
      found_articles, is_finding_news, selected_article_ids, newsletter_files,
      session_state, writers, customer_info, keywords_cfg, feeds_cfg,
      google_call>>

\* the "Next" button of steps 1 to 6; a step whose validation fails stops
\* the run
WizardNext(form) ==
    /\ onboarding_step < 7
    /\ IF StepValid(onboarding_step, form)
       THEN /\ onboarding_data' =
                  DictUpdate(onboarding_data, StepData(onboarding_step, form))
            /\ onboarding_step' = onboarding_step + 1
       ELSE UNCHANGED wizardVars
    /\ ret' = [op |-> "wizard_next", step |-> onboarding_step,
               result |-> StepValid(onboarding_step, form)]
    /\ UNCHANGED wizardFrame

\* the "Back" button
WizardBack ==
    /\ onboarding_step > 1
    /\ onboarding_step' = onboarding_step - 1
    /\ ret' = [op |-> "wizard_back", step |-> onboarding_step]
    /\ UNCHANGED <<wizardFrame, onboarding_data>>

\* the admin opens another page and comes back: the step is deleted and
\* initialised again, the data stay
WizardLeave ==
    /\ onboarding_step' = 1
    /\ ret' = [op |-> "wizard_leave", step |-> onboarding_step]
    /\ UNCHANGED <<wizardFrame, onboarding_data>>

\* render_onboarding_step7_create: the fields it finds missing
required_fields ==
    {"customer_id", "company_name", "short_name", "application_name",
     "footer_text", "footer_url", "contact_name", "contact_email",
     "subscription_tier"}

missing_fields == {field \in required_fields : DictGet(onboarding_data, field) = ""}

\* the customer_data step 7 builds
Step7Data ==
    [CustomerData(DictGet(onboarding_data, "customer_id"),
                  DictGet(onboarding_data, "contact_email"),
                  DictGet(onboarding_data, "subscription_tier"),
                  DictGet(onboarding_data, "application_name"))
        EXCEPT !.feeds = onboarding_data.feeds]

\* a run that renders step 7: with missing fields it shows the warning and
\* no button; otherwise "Create Customer Account" is clicked
render_onboarding_step7_create(io) ==
    /\ onboarding_step = 7
    /\ IF missing_fields # {}
       THEN /\ ret' = [op |-> "wizard_step7", result |-> FALSE]
            /\ UNCHANGED <<wizardFrame, wizardVars>>
       ELSE /\ create_customer_record(Step7Data, io)
            /\ onboarding_data' =
                  IF ret'.result THEN EmptyOnboarding ELSE onboarding_data
            /\ onboarding_step' = IF ret'.result THEN 1 ELSE onboarding_step

NextWizard ==
    \/ \E form \in WizardForms : WizardNext(form)
    \/ WizardBack
    \/ WizardLeave
    \/ \E io \in {o \in CreateOutcomes : o.list_ok /\ o.folder_ok /\ o.branding_ok /\
                                         o.keywords_ok /\ o.feeds_ok /\ o.access_ok} :
          render_onboarding_step7_create(io)

SpecWizard == InitAdmin /\ [][NextWizard]_vars

\* C29: a wizard run that passed the validation of steps 1, 2 and 5 can
\* create the account at step 7, also with the optional footer text and
\* footer URL left empty; the step stays within 1..7 and is 1 again after a
\* successful creation.
C29_WizardCompletes ==
    /\ onboarding_step \in 1..7
    /\ onboarding_step = 7 => missing_fields = {}
    /\ (ret.op = "create_customer_record" /\ ret.result) => onboarding_step = 1

(***************************************************************************)
(* The discovery block of render_dashboard followed step by step: a run    *)
(* enters it with the flag set and leaves it on one of four paths          *)
(***************************************************************************)
\* the paths out of the block are "no_company", "no_config", "error" and
\* "success"
\* a variant: only the path that ends with the sorted list resets the flag
FlagAfterSuccessOnly(path) == path # "success"

\* st.session_state.is_finding_news when the block is left on the path
FlagAfter(path) == FALSE

\* a run of main() that reaches "if find_button or
\* st.session_state.is_finding_news"; find_button is whether this run was
\* started by a click on "Find News"
DashboardRun(find_button) ==
    /\ pc = "ready"
    /\ authenticated
    /\ current_customer_id # ""
    /\ branding' \in BrandingAfterLoad(user_email)
    /\ LET newsletters == RenderNewsletters(user_email)
       IN /\ newsletters # <<>>
          /\ current_customer_id \in SelectableCustomers(newsletters)
          /\ user_newsletters' = newsletters
    /\ config_cache' = ConfigAfterLoad(current_customer_id)
    /\ LET started == find_button \/ is_finding_news
       IN /\ is_finding_news' = started
          /\ pc' = IF started THEN "finding" ELSE "ready"
          /\ ret' = [op |-> "dashboard_run", find_button |-> find_button,
                     started |-> started]
    /\ UNCHANGED <<customer_dirs, user_access, authenticated, user_email,
                   current_customer_id, session_valid_until, envVars,
                   google_out, rss_out, background_out, found_articles,
                   dashboardVars>>

\* the run leaves the block; raised is whether a statement of the try block
\* raised an exception before the accumulators were reset
DiscoveryExit(raised) ==
    /\ pc = "finding"
    /\ LET path == IF current_customer_id = "" THEN "no_company"
                   ELSE IF raised THEN "error"
                   ELSE IF keywords = <<>> /\ feed_urls = <<>> THEN "no_config"
                   ELSE "success"
       IN /\ found_articles' =
                 IF path = "success"
                 THEN DashboardDiscover(keywords, feed_urls, time_period)
                 ELSE found_articles
          /\ is_finding_news' = FlagAfter(path)
          /\ ret' = [op |-> "discovery_exit", path |-> path]
    /\ pc' = "ready"
    /\ UNCHANGED <<storeVars, sessionVars, envVars, google_out, rss_out,
                   background_out, dashboardVars>>

NextFlag ==
    \/ pc = "ready" /\ Login("a@x.com", "changeme123")
    \/ pc = "ready" /\ Render("Acme News")
    \/ \E find_button \in BOOLEAN : DashboardRun(find_button)
    \/ \E raised \in BOOLEAN : DiscoveryExit(raised)

InitFlag ==
    /\ DiscoverInputs({<<>>, <<KW1>>}, {<<>>, <<Feed1>>}, {"Last 7 days"},
                      EntriesOf({UrlA, UrlB}, {0}, {"parsed"}), {TRUE})
    /\ FreshSession
    /\ customer_dirs = {"acme"}
    /\ user_access = [c \in CustomerIds |->
                        IF c = "acme"
                        THEN FileOf(<<NewUser("a@x.com", "changeme123", "Standard",
                                              "editor", EmptyText)>>)
                        ELSE NoUserAccess]
    /\ branding = [c \in CustomerIds |->
                     IF c = "acme" THEN BrandingOf("Acme News") ELSE NoBranding]

SpecFlag == InitFlag /\ [][NextFlag]_vars

\* C30: is_finding_news is false whenever no run is inside the discovery
\* block, whichever path the last run left it on, and a run that was not
\* started by a click on "Find News" starts no discovery.
C30_FlagReset ==
    /\ pc = "ready" => ~is_finding_news
    /\ (ret.op = "dashboard_run" /\ ~ret.find_button) => ~ret.started

\* a run left the block through the except clause or through st.stop()
C30_Witness ==
    /\ ret.op = "discovery_exit"
    /\ ret.path \in {"error", "no_config"}
    /\ pc = "ready"
    /\ ~is_finding_news

====
